---- MODULE Spec2Model ----
(***************************************************************************)
(* A model of feishu-docx's document converter:                            *)
(*   - DocumentParser (core/parsers/document.py): the tree builder         *)
(*     (_preprocess), the recursive Markdown renderer (parse,              *)
(*     _recursive_render, _render_block_self, _render_text_payload) and    *)
(*     the table grid reconstruction (_render_table and its two emitters); *)
(*   - MarkdownToBlocks (core/converters/md_to_blocks.py).                 *)
(*                                                                         *)
(* A Python str is a sequence of one-character strings, so that split,     *)
(* strip, join and replace are computed as the code computes them.         *)
(***************************************************************************)
EXTENDS Integers, Sequences, FiniteSets, TLC

VARIABLES
    \* ---- DocumentParser._render_table, one loop iteration per step ----
    table_block,     \* the table under render: row_size, column_size, merge_info, cells, table_mode
    visited,         \* visited[<<r, c>>]
    grid_data,       \* grid_data[<<r, c>>]: <<>> (None) or <<content, r_span, c_span>>
    global_cell_cursor,
    scan_pos,        \* flat index of the next (r_idx, c_idx) of the nested loops
    table_pc,        \* "scan" | "emit" | "done"
    table_out,       \* the string _render_table returns
    \* ---- DocumentParser: the tree builder and the renderer ----
    raw_data_list,   \* what sdk.get_document_block_list returns for the document
    sdk,             \* how each collaborator's request ends: "ok" | "fail" | "raise"
    table_mode,      \* self.table_mode: "md" | "html"
    assets_dir,      \* self.assets_dir.name, or None
    blocks_map,      \* self.blocks_map, each block with its sub_blocks
    root_block,      \* the block_id of self.root_block, or NoBlock
    parse_out,       \* what the last parse() did: [text, raised, calls]
    parse_history,   \* what each parse() on this parser did, in call order
    pc,              \* "new" | "ready" | "done"
    \* ---- MarkdownToBlocks.convert, one loop iteration per step ----
    tokens,          \* what self._md(markdown_text) returns: the syntax nodes
    blocks,          \* the block list under construction
    token_pos,       \* the number of tokens the loop has taken
    convert_pc,      \* "loop" | "done"
    \* ---- FeishuWriter.write_content and DocxAPI.create_blocks ----
    doc_children,    \* the children of the document's root block, as the server holds them
    write_args,      \* the arguments of the call: [entry, given, append, use_native_api, index]
    new_blocks,      \* blocks: what the conversion returned
    sent,            \* i of the chunk loop: the number of children sent
    current_index,   \* current_index of create_blocks
    write_calls,     \* the requests made to the server, in order
    write_out,       \* what write_content returns, or None
    write_pc,        \* "start" | "create" | "done" | "raised"
    answers,         \* how the server answers: [convert, create_fails_at]
    \* ---- TenantAuthenticator.get_token ----
    clock,           \* time.time(), in seconds
    cache_file,      \* tenant_token.json: NoCache, Unreadable or [token, expires_at]
    self_token,      \* self._token
    self_expires_at, \* self._expires_at
    issued,          \* the number of tokens the endpoint has issued
    last_call        \* the last get_token(): what it found, did and returned

table_vars == <<table_block, visited, grid_data, global_cell_cursor, scan_pos,
                table_pc, table_out>>

parser_vars == <<raw_data_list, sdk, table_mode, assets_dir, blocks_map, root_block,
                 parse_out, parse_history, pc>>

convert_vars == <<tokens, blocks, token_pos, convert_pc>>

write_vars == <<doc_children, write_args, new_blocks, sent, current_index, write_calls,
                write_out, write_pc, answers>>

auth_vars == <<clock, cache_file, self_token, self_expires_at, issued, last_call>>

vars == <<table_block, visited, grid_data, global_cell_cursor, scan_pos,
          table_pc, table_out, raw_data_list, sdk, table_mode, assets_dir,
          blocks_map, root_block, parse_out, parse_history, pc,
          tokens, blocks, token_pos, convert_pc,
          doc_children, write_args, new_blocks, sent, current_index, write_calls,
          write_out, write_pc, answers,
          clock, cache_file, self_token, self_expires_at, issued, last_call>>

\* no conversion is running (the state of the converter variables under the
\* specifications of the parser)
ConvertIdle ==
    /\ tokens = <<>>
    /\ blocks = <<>>
    /\ token_pos = 0
    /\ convert_pc = "idle"

\* no write is running (the state of the writer variables under the other
\* specifications)
WriteIdle ==
    /\ doc_children = <<>>
    /\ write_args = <<>>
    /\ new_blocks = <<>>
    /\ sent = 0
    /\ current_index = -1
    /\ write_calls = <<>>
    /\ write_out = <<>>
    /\ write_pc = "idle"
    /\ answers = <<>>

\* no authenticator is in use (the state of its variables under the other
\* specifications)
AuthIdle ==
    /\ clock = 0
    /\ cache_file = <<>>
    /\ self_token = <<>>
    /\ self_expires_at = 0
    /\ issued = 0
    /\ last_call = <<>>

(***************************************************************************)
(* Bounds of the model.                                                    *)
(***************************************************************************)
MaxRows == 2
MaxCols == 2
MaxMissing == 1
MaxBlocks == 3
MaxLeaves == 2
MaxTokens == 2
MaxParses == 2
MaxChunks == 2
MaxWindows == 4
MaxFetches == 2
MaxChildren == 3
MaxItems == 2

(***************************************************************************)
(* Python str helpers.                                                     *)
(***************************************************************************)
NL == "\n"

\* the grave accent, written by code point
Backtick == "U+0060"

None == <<>>

RECURSIVE Cat(_)
\* "".join(parts)
Cat(parts) == IF parts = <<>> THEN <<>> ELSE Head(parts) \o Cat(Tail(parts))

RECURSIVE Join(_, _)
\* sep.join(parts)
Join(sep, parts) ==
    IF parts = <<>> THEN <<>>
    ELSE IF Len(parts) = 1 THEN parts[1]
    ELSE parts[1] \o sep \o Join(sep, Tail(parts))

RECURSIVE SplitAcc(_, _, _)
SplitAcc(s, ch, cur) ==
    IF s = <<>> THEN <<cur>>
    ELSE IF Head(s) = ch THEN <<cur>> \o SplitAcc(Tail(s), ch, <<>>)
    ELSE SplitAcc(Tail(s), ch, Append(cur, Head(s)))

\* s.split(ch) for a one-character separator: always at least one part
Split(s, ch) == SplitAcc(s, ch, <<>>)

Whitespace == {" ", NL, "\t", "\r"}

RECURSIVE LStrip(_)
LStrip(s) == IF s # <<>> /\ Head(s) \in Whitespace THEN LStrip(Tail(s)) ELSE s

RECURSIVE RStrip(_)
RStrip(s) ==
    IF s # <<>> /\ s[Len(s)] \in Whitespace THEN RStrip(SubSeq(s, 1, Len(s) - 1)) ELSE s

\* s.strip()
Strip(s) == RStrip(LStrip(s))

RECURSIVE Replace(_, _, _)
\* s.replace(ch, by) for a one-character ch
Replace(s, ch, by) ==
    IF s = <<>> THEN <<>>
    ELSE (IF Head(s) = ch THEN by ELSE <<Head(s)>>) \o Replace(Tail(s), ch, by)

\* PrefixLines that prefixes the first line only
PrefixLinesFirstOnly(prefix, s) == prefix \o s

\* prefix + line for every line of s, joined by newlines
PrefixLines(prefix, s) ==
    LET lines == Split(s, NL)
    IN  Join(<<NL>>, [i \in 1..Len(lines) |-> prefix \o lines[i]])

Digits == <<"0", "1", "2", "3", "4", "5", "6", "7", "8", "9">>

RECURSIVE IntStr(_)
\* str(n) for n >= 0
IntStr(n) == IF n < 10 THEN <<Digits[n + 1]>> ELSE IntStr(n \div 10) \o <<Digits[(n % 10) + 1]>>

\* seq * n
Repeat(s, n) == Cat([i \in 1..n |-> s])

(***************************************************************************)
(* DocumentParser._render_table: the grid scan.                            *)
(*                                                                         *)
(* table_block.cells[k] is the list inner_texts of the k-th cell block:    *)
(* the _recursive_render of each of its children.                          *)
(***************************************************************************)
BR == <<"<", "b", "r", ">">>

\* "[空表格]": the CJK characters are written by code point
EmptyTableText == <<"[", "U+7A7A", "U+8868", "U+683C", "]">>

Positions(row_count, col_count) == (0..(row_count - 1)) \X (0..(col_count - 1))

\* visited and grid_data as lines 344-347 build them
NewVisited(row_count, col_count) == [p \in Positions(row_count, col_count) |-> FALSE]

NewGrid(row_count, col_count) == [p \in Positions(row_count, col_count) |-> None]

\* lines 354-360: the span of the origin at flat_index, 1 x 1 past the end of merge_info
SpanAt(merge_infos, flat_index) ==
    IF flat_index < Len(merge_infos) THEN merge_infos[flat_index + 1] ELSE <<1, 1>>

\* lines 363-366: the positions an origin marks, clipped to the grid
MarkedBy(row_count, col_count, r_idx, c_idx, r_span, c_span) ==
    {<<r_idx + rs, c_idx + cs>> : rs \in 0..(r_span - 1), cs \in 0..(c_span - 1)}
        \cap Positions(row_count, col_count)

\* ScanStep with an off-by-one in the rows an origin marks: range(r_span + 1)
ScanStepMarksOneRowMore(tb, s, r_idx, c_idx) ==
    IF s.visited[<<r_idx, c_idx>>] THEN s
    ELSE
        LET span == SpanAt(tb.merge_info, r_idx * tb.column_size + c_idx)
            marked == MarkedBy(tb.row_size, tb.column_size, r_idx, c_idx, span[1] + 1, span[2])
            has_cell == s.cursor < Len(tb.cells)
            cell_content == IF has_cell THEN Join(BR, tb.cells[s.cursor + 1]) ELSE <<>>
        IN  [visited |-> [p \in DOMAIN s.visited |-> s.visited[p] \/ p \in marked],
             grid_data |-> [s.grid_data EXCEPT ![<<r_idx, c_idx>>] = <<cell_content, span[1], span[2]>>],
             cursor |-> IF has_cell THEN s.cursor + 1 ELSE s.cursor]

\* ScanStep that consumes a cell block for a spanned position too
ScanStepConsumesOnSkip(tb, s, r_idx, c_idx) ==
    IF s.visited[<<r_idx, c_idx>>] THEN [s EXCEPT !.cursor = s.cursor + 1]
    ELSE
        LET span == SpanAt(tb.merge_info, r_idx * tb.column_size + c_idx)
            marked == MarkedBy(tb.row_size, tb.column_size, r_idx, c_idx, span[1], span[2])
            has_cell == s.cursor < Len(tb.cells)
            cell_content == IF has_cell THEN Join(BR, tb.cells[s.cursor + 1]) ELSE <<>>
        IN  [visited |-> [p \in DOMAIN s.visited |-> s.visited[p] \/ p \in marked],
             grid_data |-> [s.grid_data EXCEPT ![<<r_idx, c_idx>>] = <<cell_content, span[1], span[2]>>],
             cursor |-> IF has_cell THEN s.cursor + 1 ELSE s.cursor]

\* ScanStep that stores an origin without cell block as a 1 x 1 cell
ScanStepDropsSpanWhenMissing(tb, s, r_idx, c_idx) ==
    IF s.visited[<<r_idx, c_idx>>] THEN s
    ELSE
        LET span == SpanAt(tb.merge_info, r_idx * tb.column_size + c_idx)
            marked == MarkedBy(tb.row_size, tb.column_size, r_idx, c_idx, span[1], span[2])
            has_cell == s.cursor < Len(tb.cells)
        IN  [visited |-> [p \in DOMAIN s.visited |-> s.visited[p] \/ p \in marked],
             grid_data |-> [s.grid_data EXCEPT ![<<r_idx, c_idx>>] =
                                IF has_cell THEN <<Join(BR, tb.cells[s.cursor + 1]), span[1], span[2]>>
                                ELSE <<<<>>, 1, 1>>],
             cursor |-> IF has_cell THEN s.cursor + 1 ELSE s.cursor]

\* ScanStep that takes a visited position as an origin too
ScanStepIgnoringVisited(tb, s, r_idx, c_idx) ==
    LET span == SpanAt(tb.merge_info, r_idx * tb.column_size + c_idx)
        marked == MarkedBy(tb.row_size, tb.column_size, r_idx, c_idx, span[1], span[2])
        has_cell == s.cursor < Len(tb.cells)
        cell_content == IF has_cell THEN Join(BR, tb.cells[s.cursor + 1]) ELSE <<>>
    IN  [visited |-> [p \in DOMAIN s.visited |-> s.visited[p] \/ p \in marked],
         grid_data |-> [s.grid_data EXCEPT ![<<r_idx, c_idx>>] = <<cell_content, span[1], span[2]>>],
         cursor |-> IF has_cell THEN s.cursor + 1 ELSE s.cursor]

\* ScanStep that keeps the cursor on the cell block it has just taken
ScanStepReusingCell(tb, s, r_idx, c_idx) ==
    IF s.visited[<<r_idx, c_idx>>] THEN s
    ELSE
        LET span == SpanAt(tb.merge_info, r_idx * tb.column_size + c_idx)
            marked == MarkedBy(tb.row_size, tb.column_size, r_idx, c_idx, span[1], span[2])
            has_cell == s.cursor < Len(tb.cells)
            cell_content == IF has_cell THEN Join(BR, tb.cells[s.cursor + 1]) ELSE <<>>
        IN  [visited |-> [p \in DOMAIN s.visited |-> s.visited[p] \/ p \in marked],
             grid_data |-> [s.grid_data EXCEPT ![<<r_idx, c_idx>>] = <<cell_content, span[1], span[2]>>],
             cursor |-> s.cursor]

\* lines 351-376: one iteration of the nested loops, on s = [visited, grid_data, cursor]
ScanStep(tb, s, r_idx, c_idx) ==
    IF s.visited[<<r_idx, c_idx>>] THEN s
    ELSE
        LET span == SpanAt(tb.merge_info, r_idx * tb.column_size + c_idx)
            r_span == span[1]
            c_span == span[2]
            marked == MarkedBy(tb.row_size, tb.column_size, r_idx, c_idx, r_span, c_span)
            has_cell == s.cursor < Len(tb.cells)
            cell_content == IF has_cell THEN Join(BR, tb.cells[s.cursor + 1]) ELSE <<>>
        IN  [visited |-> [p \in DOMAIN s.visited |-> s.visited[p] \/ p \in marked],
             grid_data |-> [s.grid_data EXCEPT ![<<r_idx, c_idx>>] = <<cell_content, r_span, c_span>>],
             cursor |-> IF has_cell THEN s.cursor + 1 ELSE s.cursor]

RECURSIVE ScanFrom(_, _, _)
\* lines 349-376: the nested loops from flat position pos to the end
ScanFrom(tb, s, pos) ==
    IF pos >= tb.row_size * tb.column_size THEN s
    ELSE ScanFrom(tb, ScanStep(tb, s, pos \div tb.column_size, pos % tb.column_size), pos + 1)

\* RenderTableHtml that writes both span attributes on every cell
RenderTableHtmlAlwaysSpans(grid, row_count, col_count) ==
    LET Td(data) ==
            <<" ", " ", " ", " ", "<", "t", "d">>
                \o <<" ", "r", "o", "w", "s", "p", "a", "n", "=", "\"">> \o IntStr(data[2]) \o <<"\"">>
                \o <<" ", "c", "o", "l", "s", "p", "a", "n", "=", "\"">> \o IntStr(data[3]) \o <<"\"">>
                \o <<">">> \o data[1] \o <<"<", "/", "t", "d", ">">>
        RECURSIVE Cells(_, _)
        Cells(r, c) ==
            IF c >= col_count THEN <<>>
            ELSE (IF grid[<<r, c>>] # None THEN <<Td(grid[<<r, c>>])>> ELSE <<>>) \o Cells(r, c + 1)
        RECURSIVE Rows(_)
        Rows(r) ==
            IF r >= row_count THEN <<>>
            ELSE <<<<" ", " ", "<", "t", "r", ">">>>> \o Cells(r, 0)
                    \o <<<<" ", " ", "<", "/", "t", "r", ">">>>> \o Rows(r + 1)
    IN  Join(<<NL>>, <<<<"<", "t", "a", "b", "l", "e", ">">>>> \o Rows(0)
                        \o <<<<"<", "/", "t", "a", "b", "l", "e", ">">>>>)

\* _render_table_html
RenderTableHtml(grid, row_count, col_count) ==
    LET Td(data) ==
            LET attrs == (IF data[2] > 1
                          THEN <<" ", "r", "o", "w", "s", "p", "a", "n", "=", "\"">> \o IntStr(data[2]) \o <<"\"">>
                          ELSE <<>>)
                         \o (IF data[3] > 1
                             THEN <<" ", "c", "o", "l", "s", "p", "a", "n", "=", "\"">> \o IntStr(data[3]) \o <<"\"">>
                             ELSE <<>>)
            IN  <<" ", " ", " ", " ", "<", "t", "d">> \o attrs \o <<">">> \o data[1]
                    \o <<"<", "/", "t", "d", ">">>
        RECURSIVE Cells(_, _)
        Cells(r, c) ==
            IF c >= col_count THEN <<>>
            ELSE (IF grid[<<r, c>>] # None THEN <<Td(grid[<<r, c>>])>> ELSE <<>>) \o Cells(r, c + 1)
        RECURSIVE Rows(_)
        Rows(r) ==
            IF r >= row_count THEN <<>>
            ELSE <<<<" ", " ", "<", "t", "r", ">">>>> \o Cells(r, 0)
                    \o <<<<" ", " ", "<", "/", "t", "r", ">">>>> \o Rows(r + 1)
    IN  Join(<<NL>>, <<<<"<", "t", "a", "b", "l", "e", ">">>>> \o Rows(0)
                        \o <<<<"<", "/", "t", "a", "b", "l", "e", ">">>>>)

\* RenderTableMarkdown that writes the cell content as it is
RenderTableMarkdownUnescaped(grid, row_count, col_count) ==
    LET Cell(r, c) == IF grid[<<r, c>>] # None THEN grid[<<r, c>>][1] ELSE <<" ">>
        Line(strs) == <<"|", " ">> \o Join(<<" ", "|", " ">>, strs) \o <<" ", "|">>
        RECURSIVE Rows(_)
        Rows(r) ==
            IF r >= row_count THEN <<>>
            ELSE <<Line([i \in 1..col_count |-> Cell(r, i - 1)])>>
                    \o (IF r = 0 THEN <<Line([i \in 1..col_count |-> <<"-", "-", "-">>])>> ELSE <<>>)
                    \o Rows(r + 1)
    IN  Join(<<NL>>, Rows(0))

\* _render_table_markdown
RenderTableMarkdown(grid, row_count, col_count) ==
    LET Cell(r, c) ==
            IF grid[<<r, c>>] # None
            THEN Replace(Replace(grid[<<r, c>>][1], "|", <<"\\", "|">>), NL, BR)
            ELSE <<" ">>
        Line(strs) == <<"|", " ">> \o Join(<<" ", "|", " ">>, strs) \o <<" ", "|">>
        RECURSIVE Rows(_)
        Rows(r) ==
            IF r >= row_count THEN <<>>
            ELSE <<Line([i \in 1..col_count |-> Cell(r, i - 1)])>>
                    \o (IF r = 0 THEN <<Line([i \in 1..col_count |-> <<"-", "-", "-">>])>> ELSE <<>>)
                    \o Rows(r + 1)
    IN  Join(<<NL>>, Rows(0))

\* lines 378-382
EmitTable(tb, grid) ==
    IF tb.table_mode = "html"
    THEN RenderTableHtml(grid, tb.row_size, tb.column_size)
    ELSE RenderTableMarkdown(grid, tb.row_size, tb.column_size)

\* _render_table as a function of the table and the inner texts of its cell blocks
RenderTable(tb) ==
    IF ~tb.has_property THEN EmptyTableText
    ELSE EmitTable(tb, ScanFrom(tb, [visited |-> NewVisited(tb.row_size, tb.column_size),
                                     grid_data |-> NewGrid(tb.row_size, tb.column_size),
                                     cursor |-> 0], 0).grid_data)

(***************************************************************************)
(* The tables the grid scan is run on.                                     *)
(***************************************************************************)
Letters == <<"A", "B", "C", "D", "E", "F", "G", "H", "I", "J", "K", "L", "M", "N", "O", "P">>

\* the spans a merge_info entry holds: up to the table's own size, so that a
\* span can run past the last row or column
SpanValues(rows, cols) == (1..rows) \X (1..cols)

\* the spans that are 1 or the table's size in each direction
EdgeSpans(rows, cols) == {1, rows} \X {1, cols}

\* merge_info of a rows x cols table: 1 x 1 everywhere but at the flat indices
\* i1 and i2, cut short by `short` entries
MergeInfo(rows, cols, i1, sp1, i2, sp2, short) ==
    SubSeq([k \in 1..(rows * cols) |->
                IF k = i2 THEN sp2 ELSE IF k = i1 THEN sp1 ELSE <<1, 1>>],
           1, rows * cols - short)

\* the inner texts of the k-th cell block
CellTexts(kind, k) ==
    CASE kind = "one" -> <<<<Letters[k]>>>>
      [] kind = "two" -> <<<<Letters[k]>>, <<"p", "|", NL, "q">>>>
      [] OTHER -> <<>>

\* a table with property: the grid scan starts with lines 344-347 done
InitTableWith(tb) ==
    /\ table_block = tb
    /\ visited = NewVisited(tb.row_size, tb.column_size)
    /\ grid_data = NewGrid(tb.row_size, tb.column_size)
    /\ global_cell_cursor = 0
    /\ scan_pos = 0
    /\ table_pc = "scan"
    /\ table_out = None
    /\ raw_data_list = <<>>
    /\ sdk = [m \in {"get_user_name", "get_image", "get_whiteboard", "get_sheet", "get_bitable"} |-> "ok"]
    /\ table_mode = tb.table_mode
    /\ assets_dir = None
    /\ blocks_map = <<>>
    /\ root_block = 0
    /\ parse_out = [text |-> <<>>, raised |-> FALSE, calls |-> <<>>]
    /\ parse_history = <<>>
    /\ pc = "idle"
    /\ ConvertIdle
    /\ WriteIdle
    /\ AuthIdle

NoPropertyTable ==
    [has_property |-> FALSE, row_size |-> 0, column_size |-> 0,
     merge_info |-> <<>>, cells |-> <<>>, table_mode |-> "md"]

InitTable ==
    \/ InitTableWith(NoPropertyTable)
    \/ \E rows \in 1..MaxRows, cols \in 1..MaxCols :
         \E i1 \in 1..(rows * cols), i2 \in 1..(rows * cols),
            sp1 \in SpanValues(rows, cols), sp2 \in EdgeSpans(rows, cols),
            short \in 0..1, missing \in 0..MaxMissing,
            kind \in {"one", "two", "none"}, mode \in {"md", "html"} :
              /\ i1 <= i2
              /\ short = 1 => i1 = i2
              /\ <<kind, mode>> \in {<<"one", "md">>, <<"two", "md">>, <<"one", "html">>,
                                    <<"none", "html">>}
              /\ InitTableWith(
                    [has_property |-> TRUE, row_size |-> rows, column_size |-> cols,
                     merge_info |-> MergeInfo(rows, cols, i1, sp1, i2, sp2, short),
                     cells |-> [k \in 1..(rows * cols - missing) |-> CellTexts(kind, k)],
                     table_mode |-> mode])

\* lines 331-332: a table without property
TableEmpty ==
    /\ table_pc = "scan"
    /\ ~table_block.has_property
    /\ table_out' = EmptyTableText
    /\ table_pc' = "done"
    /\ UNCHANGED <<table_block, visited, grid_data, global_cell_cursor, scan_pos>>
    /\ UNCHANGED parser_vars
    /\ UNCHANGED convert_vars
    /\ UNCHANGED write_vars
    /\ UNCHANGED auth_vars

\* lines 349-376: the loop body at (r_idx, c_idx) = divmod(scan_pos, col_count)
TableScan ==
    /\ table_pc = "scan"
    /\ table_block.has_property
    /\ scan_pos < table_block.row_size * table_block.column_size
    /\ LET s == ScanStep(table_block,
                         [visited |-> visited, grid_data |-> grid_data, cursor |-> global_cell_cursor],
                         scan_pos \div table_block.column_size, scan_pos % table_block.column_size)
       IN  /\ visited' = s.visited
           /\ grid_data' = s.grid_data
           /\ global_cell_cursor' = s.cursor
    /\ scan_pos' = scan_pos + 1
    /\ UNCHANGED <<table_block, table_pc, table_out>>
    /\ UNCHANGED parser_vars
    /\ UNCHANGED convert_vars
    /\ UNCHANGED write_vars
    /\ UNCHANGED auth_vars

\* lines 378-382: the loops are over, emit the grid
TableEmit ==
    /\ table_pc = "scan"
    /\ table_block.has_property
    /\ scan_pos = table_block.row_size * table_block.column_size
    /\ table_out' = EmitTable(table_block, grid_data)
    /\ table_pc' = "done"
    /\ UNCHANGED <<table_block, visited, grid_data, global_cell_cursor, scan_pos>>
    /\ UNCHANGED parser_vars
    /\ UNCHANGED convert_vars
    /\ UNCHANGED write_vars
    /\ UNCHANGED auth_vars

NextTable == TableEmpty \/ TableScan \/ TableEmit

SpecTable == InitTable /\ [][NextTable]_vars

(***************************************************************************)
(* BlockType (feishu_docx.schema.models) and the block records.            *)
(***************************************************************************)
BT_PAGE == 1
BT_TEXT == 2
BT_HEADING1 == 3
BT_HEADING9 == 11
BT_BULLET == 12
BT_ORDERED == 13
BT_CODE == 14
BT_QUOTE == 15
BT_TODO == 17
BT_BITABLE == 18
BT_CALLOUT == 19
BT_DIVIDER == 22
BT_IMAGE == 27
BT_SHEET == 30
BT_TABLE == 31
BT_TABLE_CELL == 32
BT_QUOTE_CONTAINER == 34
BT_BOARD == 43
BT_REFERENCE_BLOCK == 40

\* text_element_style absent
NoStyle ==
    [present |-> FALSE, bold |-> FALSE, italic |-> FALSE, strikethrough |-> FALSE,
     inline_code |-> FALSE, underline |-> FALSE, has_link |-> FALSE, url |-> <<>>]

\* an element holding a text_run without style
TextRun(content) == [kind |-> "text_run", content |-> content, style |-> NoStyle]

\* the names of the style attributes of a text_run
StyleFlags == {"bold", "italic", "strikethrough", "inline_code", "underline", "link"}

\* an element holding a text_run whose text_element_style had the attributes
\* of set_order set on it, one after the other; the link, when set, is to url
StyledTextRun(content, set_order, url) ==
    LET set == {set_order[i] : i \in 1..Len(set_order)}
    IN  [kind |-> "text_run", content |-> content,
         style |-> [present |-> TRUE, bold |-> "bold" \in set, italic |-> "italic" \in set,
                    strikethrough |-> "strikethrough" \in set,
                    inline_code |-> "inline_code" \in set,
                    underline |-> "underline" \in set, has_link |-> "link" \in set,
                    url |-> IF "link" \in set THEN url ELSE <<>>]]

\* an element holding a mention_user
MentionUser(user_id) == [kind |-> "mention_user", content |-> user_id, style |-> NoStyle]

\* the payload attributes of a block: the text payload of its type (elements,
\* style), the token of an image / board / sheet / bitable / reference block,
\* the property of a table
NoPayload ==
    [present |-> FALSE, elements |-> <<>>, sequence |-> <<>>, done |-> FALSE, language |-> 0,
     token |-> <<>>, view_id |-> <<>>,
     has_property |-> FALSE, row_size |-> 0, column_size |-> 0, merge_info |-> <<>>]

TextPayload(elements) == [NoPayload EXCEPT !.present = TRUE, !.elements = elements]

TokenPayload(token) == [NoPayload EXCEPT !.present = TRUE, !.token = token]

TablePayload(rows, cols, merge_info) ==
    [NoPayload EXCEPT !.present = TRUE, !.has_property = TRUE, !.row_size = rows,
                      !.column_size = cols, !.merge_info = merge_info]

\* one item of raw_data_list; decodes says whether FeishuBlock(**item) succeeds
RawBlock(block_id, block_type, children, payload, decodes) ==
    [block_id |-> block_id, block_type |-> block_type, children |-> children,
     payload |-> payload, decodes |-> decodes]

(***************************************************************************)
(* MarkdownToBlocks (core/converters/md_to_blocks.py).                     *)
(*                                                                         *)
(* A syntax node is [type, level, raw, info, ordered, url, children]; a    *)
(* converted block is [block_type, payload], the payload being the one the *)
(* block carries under the key of its type.                                *)
(***************************************************************************)
BLOCK_TYPE_TEXT == 2
BLOCK_TYPE_HEADING1 == 3
BLOCK_TYPE_BULLET == 12
BLOCK_TYPE_ORDERED == 13
BLOCK_TYPE_CODE == 14
BLOCK_TYPE_QUOTE == 15
BLOCK_TYPE_DIVIDER == 22

\* LANGUAGE_MAP, as its items
LANGUAGE_MAP ==
    {<<<<"p", "y", "t", "h", "o", "n">>, 49>>,
     <<<<"j", "a", "v", "a", "s", "c", "r", "i", "p", "t">>, 22>>,
     <<<<"t", "y", "p", "e", "s", "c", "r", "i", "p", "t">>, 75>>,
     <<<<"j", "a", "v", "a">>, 21>>,
     <<<<"g", "o">>, 13>>,
     <<<<"r", "u", "s", "t">>, 56>>,
     <<<<"c">>, 5>>,
     <<<<"c", "p", "p">>, 7>>,
     <<<<"c", "s", "h", "a", "r", "p">>, 8>>,
     <<<<"r", "u", "b", "y">>, 55>>,
     <<<<"p", "h", "p">>, 46>>,
     <<<<"s", "w", "i", "f", "t">>, 68>>,
     <<<<"k", "o", "t", "l", "i", "n">>, 25>>,
     <<<<"s", "q", "l">>, 64>>,
     <<<<"s", "h", "e", "l", "l">>, 61>>,
     <<<<"b", "a", "s", "h">>, 3>>,
     <<<<"j", "s", "o", "n">>, 23>>,
     <<<<"y", "a", "m", "l">>, 81>>,
     <<<<"x", "m", "l">>, 79>>,
     <<<<"h", "t", "m", "l">>, 17>>,
     <<<<"c", "s", "s">>, 9>>,
     <<<<"m", "a", "r", "k", "d", "o", "w", "n">>, 34>>}

\* the tag LANGUAGE_MAP.get(lang, 1) gives
LanguageTag(lang) ==
    IF \E item \in LANGUAGE_MAP : item[1] = lang
    THEN (CHOOSE item \in LANGUAGE_MAP : item[1] = lang)[2]
    ELSE 1

UpperCase == <<"A", "B", "C", "D", "E", "F", "G", "H", "I", "J", "K", "L", "M",
               "N", "O", "P", "Q", "R", "S", "T", "U", "V", "W", "X", "Y", "Z">>

LowerCase == <<"a", "b", "c", "d", "e", "f", "g", "h", "i", "j", "k", "l", "m",
               "n", "o", "p", "q", "r", "s", "t", "u", "v", "w", "x", "y", "z">>

\* s.lower()
ToLower(s) ==
    [i \in 1..Len(s) |->
        IF \E k \in 1..26 : UpperCase[k] = s[i]
        THEN LowerCase[CHOOSE k \in 1..26 : UpperCase[k] = s[i]]
        ELSE s[i]]

\* a syntax node without attributes
Node(type) ==
    [type |-> type, level |-> 0, raw |-> <<>>, info |-> <<>>, ordered |-> FALSE,
     url |-> <<>>, children |-> <<>>]

Text(raw) == [Node("text") EXCEPT !.raw = raw]

Codespan(raw) == [Node("codespan") EXCEPT !.raw = raw]

Strong(children) == [Node("strong") EXCEPT !.children = children]

Emphasis(children) == [Node("emphasis") EXCEPT !.children = children]

Link(url, children) == [Node("link") EXCEPT !.url = url, !.children = children]

Softbreak == Node("softbreak")

Heading(level, children) == [Node("heading") EXCEPT !.level = level, !.children = children]

Paragraph(children) == [Node("paragraph") EXCEPT !.children = children]

BlockText(children) == [Node("block_text") EXCEPT !.children = children]

BlockCode(info, raw) == [Node("block_code") EXCEPT !.info = info, !.raw = raw]

BlockQuote(children) == [Node("block_quote") EXCEPT !.children = children]

ThematicBreak == Node("thematic_break")

BlankLine == Node("blank_line")

BlockHtml(raw) == [Node("block_html") EXCEPT !.raw = raw]

ListItem(children) == [Node("list_item") EXCEPT !.children = children]

List(ordered, children) == [Node("list") EXCEPT !.ordered = ordered, !.children = children]

\* {"text_run": {"content": content, "text_element_style": {style_key: True}}}
StyledRun(content, style_key) ==
    [kind |-> "text_run", content |-> content,
     style |-> [NoStyle EXCEPT !.present = TRUE, ![style_key] = TRUE]]

\* lines 231-238, 241-248, 251-258: a run per text child of a styled span
TextRunsOf(subs, style_key) ==
    LET texts == SelectSeq(subs, LAMBDA sub : sub.type = "text")
    IN  [k \in 1..Len(texts) |-> StyledRun(texts[k].raw, style_key)]

\* lines 260-273: the run of a link
LinkRun(child) ==
    LET texts == SelectSeq(child.children, LAMBDA sub : sub.type = "text")
        text == IF texts # <<>> THEN texts[1].raw ELSE <<>>
    IN  [kind |-> "text_run", content |-> IF text # <<>> THEN text ELSE child.url,
         style |-> [NoStyle EXCEPT !.present = TRUE, !.has_link = TRUE, !.url = child.url]]

RECURSIVE ExtractTextElements(_)
\* _extract_text_elements
ExtractTextElements(children) ==
    IF children = <<>> THEN <<>>
    ELSE
        LET child == Head(children)
        IN  (CASE child.type = "text" -> <<TextRun(child.raw)>>
               [] child.type = "codespan" -> <<StyledRun(child.raw, "inline_code")>>
               [] child.type = "strong" -> TextRunsOf(child.children, "bold")
               [] child.type = "emphasis" -> TextRunsOf(child.children, "italic")
               [] child.type = "strikethrough" -> TextRunsOf(child.children, "strikethrough")
               [] child.type = "link" -> <<LinkRun(child)>>
               [] OTHER -> <<>>)
            \o ExtractTextElements(Tail(children))

\* lines 161-166 and 191-196: the elements of the paragraph children
ParagraphElements(children) ==
    Cat([k \in 1..Len(children) |->
            IF children[k].type = "paragraph"
            THEN ExtractTextElements(children[k].children)
            ELSE <<>>])

Min(a, b) == IF a < b THEN a ELSE b

Max(a, b) == IF a > b THEN a ELSE b

\* _make_heading
MakeHeading(token) ==
    LET level == Min(Max(token.level, 1), 6)
    IN  [block_type |-> BLOCK_TYPE_HEADING1 + level - 1,
         payload |-> TextPayload(ExtractTextElements(token.children))]

\* _make_paragraph
MakeParagraph(token) ==
    [block_type |-> BLOCK_TYPE_TEXT, payload |-> TextPayload(ExtractTextElements(token.children))]

\* MakeList that gives one block for the whole list
MakeListOneBlock(token) ==
    LET items == SelectSeq(token.children, LAMBDA item : item.type = "list_item")
    IN  <<[block_type |-> IF token.ordered THEN BLOCK_TYPE_ORDERED ELSE BLOCK_TYPE_BULLET,
           payload |-> TextPayload(Cat([k \in 1..Len(items) |-> ParagraphElements(items[k].children)]))]>>

\* _make_list: one block per list_item
MakeList(token) ==
    LET items == SelectSeq(token.children, LAMBDA item : item.type = "list_item")
    IN  [k \in 1..Len(items) |->
            [block_type |-> IF token.ordered THEN BLOCK_TYPE_ORDERED ELSE BLOCK_TYPE_BULLET,
             payload |-> TextPayload(ParagraphElements(items[k].children))]]

\* MakeCodeBlock that strips the raw text
MakeCodeBlockStripped(token) ==
    [block_type |-> BLOCK_TYPE_CODE,
     payload |-> [TextPayload(<<TextRun(Strip(token.raw))>>)
                    EXCEPT !.language = LanguageTag(ToLower(token.info))]]

\* _make_code_block
MakeCodeBlock(token) ==
    [block_type |-> BLOCK_TYPE_CODE,
     payload |-> [TextPayload(<<TextRun(token.raw)>>)
                    EXCEPT !.language = LanguageTag(ToLower(token.info))]]

\* _make_quote
MakeQuote(token) ==
    [block_type |-> BLOCK_TYPE_QUOTE, payload |-> TextPayload(ParagraphElements(token.children))]

\* _make_divider
MakeDivider == [block_type |-> BLOCK_TYPE_DIVIDER, payload |-> [NoPayload EXCEPT !.present = TRUE]]

\* ConvertToken that turns a node of another type into a text block of its raw text
ConvertTokenKeepsRaw(token) ==
    CASE token.type = "heading" -> <<MakeHeading(token)>>
      [] token.type = "paragraph" -> <<MakeParagraph(token)>>
      [] token.type = "list" -> MakeList(token)
      [] token.type = "block_code" -> <<MakeCodeBlock(token)>>
      [] token.type = "block_quote" -> <<MakeQuote(token)>>
      [] token.type = "thematic_break" -> <<MakeDivider>>
      [] OTHER -> <<[block_type |-> BLOCK_TYPE_TEXT, payload |-> TextPayload(<<TextRun(token.raw)>>)]>>

\* lines 89-94: the blocks _convert_token adds to the list for one token
ConvertToken(token) ==
    CASE token.type = "heading" -> <<MakeHeading(token)>>
      [] token.type = "paragraph" -> <<MakeParagraph(token)>>
      [] token.type = "list" -> MakeList(token)
      [] token.type = "block_code" -> <<MakeCodeBlock(token)>>
      [] token.type = "block_quote" -> <<MakeQuote(token)>>
      [] token.type = "thematic_break" -> <<MakeDivider>>
      [] OTHER -> <<>>

(***************************************************************************)
(* The collaborators behind FeishuSDK.                                     *)
(*                                                                         *)
(* sdk is the collaborator object the parser is constructed with; its       *)
(* methods are those of the API modules.  sdk[method] is how the method's  *)
(* API request ends: "ok", "fail" (the response is not success()) or       *)
(* "raise" (the client request or the file write raises).                  *)
(***************************************************************************)
SdkMethods == {"get_user_name", "get_image", "get_whiteboard", "get_sheet", "get_bitable"}

\* self.temp_dir / name, as a string
TempPath(name) == <<"/", "t", "/">> \o name

\* the display name the contact API holds for a user id
UserDisplayName(user_id) == <<"N", "_">> \o user_id

\* the table text a sheet / bitable fetch converts to
EmbeddedTableText(token0, token1) == <<"|">> \o token0 \o <<"|">> \o token1 \o <<"|">>

\* what a call returns: [raised, value, is_none]
Returned(value) == [raised |-> FALSE, is_none |-> FALSE, value |-> value]

ReturnedNone == [raised |-> FALSE, is_none |-> TRUE, value |-> <<>>]

Raised == [raised |-> TRUE, is_none |-> FALSE, value |-> <<>>]

\* ContactAPI.get_user_name
GetUserName(outcome, user_id) ==
    CASE outcome = "raise" -> Raised
      [] outcome = "fail" -> Returned(user_id)
      [] OTHER -> Returned(UserDisplayName(user_id))

\* MediaAPI.get_image: the extension is ".png" when the response names no file
GetImage(outcome, file_token) ==
    CASE outcome = "raise" -> Raised
      [] outcome = "fail" -> ReturnedNone
      [] OTHER -> Returned(TempPath(file_token \o <<".", "p", "n", "g">>))

\* MediaAPI.get_whiteboard
GetWhiteboard(outcome, whiteboard_id) ==
    CASE outcome = "raise" -> Raised
      [] outcome = "fail" -> ReturnedNone
      [] OTHER -> Returned(TempPath(whiteboard_id \o <<".", "p", "n", "g">>))

\* SheetAPI.get_sheet
GetSheet(outcome, sheet_token, sheet_id) ==
    CASE outcome = "raise" -> Raised
      [] outcome = "fail" -> ReturnedNone
      [] OTHER -> Returned(EmbeddedTableText(sheet_token, sheet_id))

\* BitableAPI.get_bitable: every exception is caught and gives None
GetBitable(outcome, app_token, table_id) ==
    CASE outcome = "raise" -> ReturnedNone
      [] outcome = "fail" -> ReturnedNone
      [] OTHER -> Returned(EmbeddedTableText(app_token, table_id))

\* self.sdk.<method>(args)
SdkCall(sdk_state, method, args) ==
    CASE method = "get_user_name" -> GetUserName(sdk_state[method], args[1])
      [] method = "get_image" -> GetImage(sdk_state[method], args[1])
      [] method = "get_whiteboard" -> GetWhiteboard(sdk_state[method], args[1])
      [] method = "get_sheet" -> GetSheet(sdk_state[method], args[1], args[2])
      [] OTHER -> GetBitable(sdk_state[method], args[1], args[2])

(***************************************************************************)
(* The renderer.  A render step returns [text, raised, calls]: the string, *)
(* whether an exception left the step, and the collaborator calls made so  *)
(* far, in order.  ps is the parser: [sdk, table_mode, assets_dir, blocks].*)
(***************************************************************************)
Result(text, calls) == [text |-> text, raised |-> FALSE, calls |-> calls]

\* the call log after self.sdk.<method>(args)
Logged(calls, method, args) == Append(calls, <<method>> \o args)

Raise(calls) == [text |-> <<>>, raised |-> TRUE, calls |-> calls]

\* the statement `r = <step>` followed by the statements K(r): step runs once
Then(step, K(_)) == CHOOSE out \in {K(r) : r \in {step}} : TRUE

\* the same, with an exception raised by step leaving the caller
Try(step, K(_)) == Then(step, LAMBDA r : IF r.raised THEN Raise(r.calls) ELSE K(r))

HexDigits == <<"0", "1", "2", "3", "4", "5", "6", "7", "8", "9", "A", "B", "C", "D", "E", "F">>

HexValue(ch) ==
    IF \E i \in 1..16 : HexDigits[i] = ch THEN (CHOOSE i \in 1..16 : HexDigits[i] = ch) - 1 ELSE -1

\* the characters of the codes the model's urls escape
CharOfCode(code) ==
    CASE code = 32 -> " "
      [] code = 47 -> "/"
      [] code = 41 -> ")"
      [] OTHER -> "?"

RECURSIVE Unquote(_)
\* urllib.parse.unquote: %XX becomes the character of code XX
Unquote(s) ==
    IF s = <<>> THEN <<>>
    ELSE IF Head(s) = "%" /\ Len(s) >= 3 /\ HexValue(s[2]) >= 0 /\ HexValue(s[3]) >= 0
         THEN <<CharOfCode(16 * HexValue(s[2]) + HexValue(s[3]))>> \o Unquote(SubSeq(s, 4, Len(s)))
         ELSE <<Head(s)>> \o Unquote(Tail(s))

\* RenderTextRun that wraps for strikethrough before it wraps for bold
RenderTextRunStrikethroughFirst(el) ==
    LET style == el.style
        t0 == el.content
        t1 == IF style.strikethrough THEN <<"~", "~">> \o t0 \o <<"~", "~">> ELSE t0
        t2 == IF style.bold THEN <<"*", "*">> \o t1 \o <<"*", "*">> ELSE t1
        t3 == IF style.italic THEN <<"*">> \o t2 \o <<"*">> ELSE t2
        t4 == IF style.inline_code THEN <<Backtick>> \o t3 \o <<Backtick>> ELSE t3
        t5 == IF style.underline THEN <<"<", "u", ">">> \o t4 \o <<"<", "/", "u", ">">> ELSE t4
        t6 == IF style.has_link
              THEN <<"[">> \o t5 \o <<"]", "(">> \o Unquote(style.url) \o <<")">>
              ELSE t5
    IN  IF style.present THEN t6 ELSE t0

\* lines 300-315: a text_run with its style wrappers
RenderTextRun(el) ==
    LET style == el.style
        t0 == el.content
        t1 == IF style.bold THEN <<"*", "*">> \o t0 \o <<"*", "*">> ELSE t0
        t2 == IF style.italic THEN <<"*">> \o t1 \o <<"*">> ELSE t1
        t3 == IF style.strikethrough THEN <<"~", "~">> \o t2 \o <<"~", "~">> ELSE t2
        t4 == IF style.inline_code THEN <<Backtick>> \o t3 \o <<Backtick>> ELSE t3
        t5 == IF style.underline THEN <<"<", "u", ">">> \o t4 \o <<"<", "/", "u", ">">> ELSE t4
        t6 == IF style.has_link
              THEN <<"[">> \o t5 \o <<"]", "(">> \o Unquote(style.url) \o <<")">>
              ELSE t5
    IN  IF style.present THEN t6 ELSE t0

RECURSIVE RenderElements(_, _, _, _)
\* lines 297-327: the loop over payload.elements
RenderElements(ps, elements, acc, calls) ==
    IF elements = <<>> THEN Result(acc, calls)
    ELSE
        LET el == Head(elements)
        IN  CASE el.kind = "text_run" ->
                    RenderElements(ps, Tail(elements), acc \o RenderTextRun(el), calls)
              [] el.kind = "mention_user" ->
                    LET r == SdkCall(ps.sdk, "get_user_name", <<el.content>>)
                        calls2 == Logged(calls, "get_user_name", <<el.content>>)
                    IN  IF r.raised THEN Raise(calls2)
                        ELSE RenderElements(ps, Tail(elements), acc \o <<"@">> \o r.value, calls2)
              [] el.kind = "mention_doc" ->
                    RenderElements(ps, Tail(elements), acc \o <<"[">> \o el.content \o <<"]">>, calls)
              [] el.kind = "equation" ->
                    RenderElements(ps, Tail(elements), acc \o <<"$">> \o el.content \o <<"$">>, calls)
              [] el.kind = "link_preview" ->
                    RenderElements(ps, Tail(elements), acc \o <<"[">> \o el.content \o <<"]">>, calls)
              [] OTHER -> RenderElements(ps, Tail(elements), acc, calls)

\* _render_text_payload
RenderTextPayload(ps, payload, calls) ==
    IF ~payload.present THEN Result(<<>>, calls)
    ELSE RenderElements(ps, payload.elements, <<>>, calls)

\* CODE_STYLE_MAP (feishu_docx.schema.code_style): the language name of a
\* language tag; the tags are those of MarkdownToBlocks.LANGUAGE_MAP
CodeStyleMap ==
    [tag \in {1} \cup {item[2] : item \in LANGUAGE_MAP} |->
        IF tag = 1 THEN <<"p", "l", "a", "i", "n", "t", "e", "x", "t">>
        ELSE (CHOOSE item \in LANGUAGE_MAP : item[2] = tag)[1]]

\* Path(file_path).name
PathName(path) == LET parts == Split(path, "/") IN parts[Len(parts)]

\* lines 226-233 and 238-245: the Markdown of a fetched asset
AssetMarkdown(ps, label, r) ==
    IF r.is_none \/ r.value = <<>> THEN <<>>
    ELSE <<"!", "[">> \o label \o <<"]", "(">>
            \o (IF ps.assets_dir # None
                THEN ps.assets_dir \o <<"/">> \o PathName(r.value)
                ELSE r.value)
            \o <<")">>

\* self.sdk.<method>(args) or "": the text of an embedded table
EmbeddedTable(ps, method, args, calls) ==
    LET r == SdkCall(ps.sdk, method, args)
        calls2 == Logged(calls, method, args)
    IN  IF r.raised THEN Raise(calls2)
        ELSE Result(IF r.is_none THEN <<>> ELSE r.value, calls2)

\* HeadingMarks that counts the level from zero
HeadingMarksFromZero(bt) == Repeat(<<"#">>, bt - BT_HEADING1) \o <<" ">>

\* lines 189-191: level = bt - 2, then '#' * level and one space
HeadingMarks(bt) == Repeat(<<"#">>, bt - 2) \o <<" ">>

\* _render_block_self
RenderBlockSelf(ps, block, calls) ==
    LET bt == block.block_type
        payload == block.payload
        Wrapped(before, after) ==
            Try(RenderTextPayload(ps, payload, calls),
                LAMBDA text : Result(before \o text.text \o after, text.calls))
    IN  CASE bt = BT_TEXT -> RenderTextPayload(ps, payload, calls)
          [] BT_HEADING1 <= bt /\ bt <= BT_HEADING9 ->
                Wrapped(HeadingMarks(bt), <<>>)
          [] bt = BT_BULLET -> Wrapped(<<"-", " ">>, <<>>)
          [] bt = BT_ORDERED ->
                Wrapped((IF payload.present /\ payload.sequence # <<>> THEN payload.sequence ELSE <<"1">>)
                            \o <<".", " ">>, <<>>)
          [] bt = BT_TODO ->
                Wrapped(<<"-", " ">>
                            \o (IF payload.present /\ payload.done THEN <<"[", "x", "]">> ELSE <<"[", " ", "]">>)
                            \o <<" ">>, <<>>)
          [] bt = BT_CODE ->
                Wrapped(<<Backtick, Backtick, Backtick>>
                            \o (IF payload.present /\ payload.language # 0
                                THEN (IF payload.language \in DOMAIN CodeStyleMap
                                      THEN CodeStyleMap[payload.language]
                                      ELSE <<"t", "e", "x", "t">>)
                                ELSE <<"t", "e", "x", "t">>)
                            \o <<NL>>,
                        <<NL, Backtick, Backtick, Backtick>>)
          [] bt = BT_QUOTE -> Wrapped(<<">", " ">>, <<>>)
          [] bt = BT_CALLOUT -> Wrapped(<<">", " ", "U+1F4A1", " ", "*", "*">>, <<"*", "*">>)
          [] bt = BT_DIVIDER -> Result(<<"-", "-", "-">>, calls)
          [] bt = BT_IMAGE ->
                IF ~payload.present \/ payload.token = <<>> THEN Result(<<>>, calls)
                ELSE LET r == SdkCall(ps.sdk, "get_image", <<payload.token>>)
                         calls2 == Logged(calls, "get_image", <<payload.token>>)
                     IN  IF r.raised THEN Raise(calls2)
                         ELSE Result(AssetMarkdown(ps, <<"i", "m", "a", "g", "e">>, r), calls2)
          [] bt = BT_BOARD ->
                IF ~payload.present \/ payload.token = <<>> THEN Result(<<>>, calls)
                ELSE LET r == SdkCall(ps.sdk, "get_whiteboard", <<payload.token>>)
                         calls2 == Logged(calls, "get_whiteboard", <<payload.token>>)
                     IN  IF r.raised THEN Raise(calls2)
                         ELSE Result(AssetMarkdown(ps, <<"w", "h", "i", "t", "e", "b", "o", "a", "r", "d">>, r),
                                     calls2)
          [] bt = BT_SHEET ->
                IF ~payload.present THEN Result(<<>>, calls)
                ELSE LET token_parts == Split(payload.token, "_")
                     IN  IF Len(token_parts) >= 2
                         THEN EmbeddedTable(ps, "get_sheet", <<token_parts[1], token_parts[2]>>, calls)
                         ELSE Result(<<>>, calls)
          [] bt = BT_BITABLE ->
                IF ~payload.present THEN Result(<<>>, calls)
                ELSE LET token_parts == Split(payload.token, "_")
                     IN  IF Len(token_parts) >= 2
                         THEN EmbeddedTable(ps, "get_bitable", <<token_parts[1], token_parts[2]>>, calls)
                         ELSE Result(<<>>, calls)
          [] bt = BT_REFERENCE_BLOCK ->
                IF ~payload.present THEN Result(<<>>, calls)
                ELSE LET token_parts == Split(payload.token, "_")
                     IN  IF Len(token_parts) = 2 /\ Len(token_parts[2]) >= 2
                            /\ SubSeq(token_parts[2], 1, 2) = <<"t", "b">>
                         THEN EmbeddedTable(ps, "get_bitable", <<token_parts[1], token_parts[2]>>, calls)
                         ELSE Result(<<>>, calls)
          [] OTHER -> Result(<<>>, calls)

\* Combine that appends the children of a quote as it does those of a plain block
CombineQuoteUnprefixed(bt, self_content, joined_children) ==
    Strip(self_content \o
          (IF joined_children = <<>> THEN <<>>
           ELSE IF bt \in {BT_BULLET, BT_ORDERED, BT_TODO}
                THEN <<NL>> \o PrefixLines(<<" ", " ", " ", " ">>, joined_children)
           ELSE <<NL, NL>> \o joined_children))

\* lines 156-177: self_content combined with the joined children
Combine(bt, self_content, joined_children) ==
    Strip(self_content \o
          (IF joined_children = <<>> THEN <<>>
           ELSE IF bt \in {BT_QUOTE, BT_QUOTE_CONTAINER, BT_CALLOUT}
                THEN <<NL>> \o PrefixLines(<<">", " ">>, joined_children)
           ELSE IF bt \in {BT_BULLET, BT_ORDERED, BT_TODO}
                THEN <<NL>> \o PrefixLines(<<" ", " ", " ", " ">>, joined_children)
           ELSE <<NL, NL>> \o joined_children))

RECURSIVE RecursiveRender(_, _, _, _)
RECURSIVE RenderEach(_, _, _, _, _, _)
RECURSIVE RenderCells(_, _, _, _, _)

RECURSIVE RenderEachLastFirst(_, _, _, _, _, _)
\* RenderEach that renders the last child first, the texts kept in list order
RenderEachLastFirst(ps, ids, fuel, calls, texts, skip_empty) ==
    IF ids = <<>> THEN [texts |-> texts, raised |-> FALSE, calls |-> calls]
    ELSE Try(RecursiveRender(ps, ids[Len(ids)], fuel, calls),
             LAMBDA r : RenderEachLastFirst(ps, SubSeq(ids, 1, Len(ids) - 1), fuel, r.calls,
                                            IF skip_empty /\ r.text = <<>> THEN texts
                                            ELSE <<r.text>> \o texts,
                                            skip_empty))

RECURSIVE RenderEachKeepingEmpty(_, _, _, _, _, _)
\* RenderEach that keeps the empty renderings too
RenderEachKeepingEmpty(ps, ids, fuel, calls, texts, skip_empty) ==
    IF ids = <<>> THEN [texts |-> texts, raised |-> FALSE, calls |-> calls]
    ELSE Try(RecursiveRender(ps, Head(ids), fuel, calls),
             LAMBDA r : RenderEachKeepingEmpty(ps, Tail(ids), fuel, r.calls, Append(texts, r.text),
                                               skip_empty))

\* the loop `for child in ...: self._recursive_render(child)`: the texts in order,
\* without the empty ones when skip_empty (lines 148-152), with them otherwise (line 372)
RenderEach(ps, ids, fuel, calls, texts, skip_empty) ==
    IF ids = <<>> THEN [texts |-> texts, raised |-> FALSE, calls |-> calls]
    ELSE Try(RecursiveRender(ps, Head(ids), fuel, calls),
             LAMBDA r : RenderEach(ps, Tail(ids), fuel, r.calls,
                                   IF skip_empty /\ r.text = <<>> THEN texts ELSE Append(texts, r.text),
                                   skip_empty))

\* lines 370-374 for the cell blocks the scan consumes: their inner_texts, in order
RenderCells(ps, cell_ids, fuel, calls, cells) ==
    IF cell_ids = <<>> THEN [cells |-> cells, raised |-> FALSE, calls |-> calls]
    ELSE Try(RenderEach(ps, ps.blocks[Head(cell_ids)].sub_blocks, fuel, calls, <<>>, FALSE),
             LAMBDA r : RenderCells(ps, Tail(cell_ids), fuel, r.calls, Append(cells, r.texts)))

\* _render_table on a block of the tree: the scan consumes one cell block per
\* origin, in order, and renders the children of each as it consumes it
RenderTableBlock(ps, table_blk, fuel, calls) ==
    IF ~table_blk.payload.present \/ ~table_blk.payload.has_property
    THEN Result(EmptyTableText, calls)
    ELSE
        LET all_cell_blocks == table_blk.sub_blocks
            tb == [has_property |-> TRUE, row_size |-> table_blk.payload.row_size,
                   column_size |-> table_blk.payload.column_size,
                   merge_info |-> table_blk.payload.merge_info,
                   cells |-> [k \in 1..Len(all_cell_blocks) |-> <<>>],
                   table_mode |-> ps.table_mode]
            consumed == ScanFrom(tb, [visited |-> NewVisited(tb.row_size, tb.column_size),
                                      grid_data |-> NewGrid(tb.row_size, tb.column_size),
                                      cursor |-> 0], 0).cursor
        IN  Try(RenderCells(ps, SubSeq(all_cell_blocks, 1, consumed), fuel, calls, <<>>),
                LAMBDA r : Result(RenderTable([tb EXCEPT !.cells = r.cells]), r.calls))

\* _recursive_render; fuel is the nesting depth left before RecursionError
RecursiveRender(ps, id, fuel, calls) ==
    IF fuel = 0 THEN Raise(calls)
    ELSE
        LET block == ps.blocks[id]
        IN  Try(RenderBlockSelf(ps, block, calls),
                LAMBDA self :
                    IF block.block_type = BT_TABLE
                    THEN RenderTableBlock(ps, block, fuel - 1, self.calls)
                    ELSE Try(RenderEach(ps, block.sub_blocks, fuel - 1, self.calls, <<>>, TRUE),
                             LAMBDA ch : Result(Combine(block.block_type, self.text,
                                                        Join(<<NL, NL>>, ch.texts)),
                                                ch.calls)))

(***************************************************************************)
(* DocumentParser._preprocess and parse.                                   *)
(***************************************************************************)
\* root_block = None
NoBlock == 0

\* the block_ids of seq, in order
BlockIds(seq) == {seq[i].block_id : i \in 1..Len(seq)}

\* lines 93-100: the items that decode; an item that does not is skipped
Decoded(raw) == SelectSeq(raw, LAMBDA item : item.decodes)

RECURSIVE ResolvedChildrenUntilDangling(_, _)
\* ResolvedChildren that stops at the first id the map does not hold
ResolvedChildrenUntilDangling(children, ids) ==
    IF children = <<>> \/ Head(children) \notin ids THEN <<>>
    ELSE <<Head(children)>> \o ResolvedChildrenUntilDangling(Tail(children), ids)

\* lines 102-110: the children ids that resolve in the map, in order
ResolvedChildren(children, ids) == SelectSeq(children, LAMBDA child_id : child_id \in ids)

\* lines 93-110: blocks_map, each block with its sub_blocks
BuildBlocksMap(raw) ==
    LET decoded == Decoded(raw)
        ids == BlockIds(decoded)
        Last(id) == decoded[CHOOSE i \in 1..Len(decoded) :
                        /\ decoded[i].block_id = id
                        /\ \A j \in (i + 1)..Len(decoded) : decoded[j].block_id # id]
    IN  [id \in ids |->
            [block_id |-> id, block_type |-> Last(id).block_type,
             children |-> Last(id).children, payload |-> Last(id).payload,
             sub_blocks |-> ResolvedChildren(Last(id).children, ids)]]

\* blocks_map.values(): the blocks in the order their ids were first inserted
MapOrder(raw) ==
    LET decoded == Decoded(raw)
        first == SelectSeq([i \in 1..Len(decoded) |-> i],
                           LAMBDA i : \A j \in 1..(i - 1) : decoded[j].block_id # decoded[i].block_id)
    IN  [k \in 1..Len(first) |-> decoded[first[k]].block_id]

\* lines 112-119: the PAGE block first in the map, else the block of the first raw item
SelectRoot(raw, map, order) ==
    LET pages == SelectSeq(order, LAMBDA id : map[id].block_type = BT_PAGE)
    IN  IF pages # <<>> THEN pages[1]
        ELSE IF raw # <<>> /\ raw[1].block_id \in DOMAIN map THEN raw[1].block_id
        ELSE NoBlock

\* the parser as the render helpers read it
ParserState(sdk_state, mode, dir, map) ==
    [sdk |-> sdk_state, table_mode |-> mode, assets_dir |-> dir, blocks |-> map]

\* parse() that renders the title line when there is no root block
ParseResultTitleWithoutRoot(ps, root) ==
    IF root = NoBlock THEN Result(<<"#", " ", NL>>, <<>>)
    ELSE
        LET root_blk == ps.blocks[root]
            page == IF root_blk.block_type = BT_PAGE THEN root_blk.payload ELSE NoPayload
        IN  Try(RenderTextPayload(ps, page, <<>>),
                LAMBDA title :
                    Try(RecursiveRender(ps, root, Cardinality(DOMAIN ps.blocks), title.calls),
                        LAMBDA body : Result(<<"#", " ">> \o title.text \o <<NL>> \o body.text,
                                             body.calls)))

\* parse(): the result; text is the string parse returns
ParseResult(ps, root) ==
    IF root = NoBlock THEN Result(<<>>, <<>>)
    ELSE
        LET root_blk == ps.blocks[root]
            page == IF root_blk.block_type = BT_PAGE THEN root_blk.payload ELSE NoPayload
        IN  Try(RenderTextPayload(ps, page, <<>>),
                LAMBDA title :
                    Try(RecursiveRender(ps, root, Cardinality(DOMAIN ps.blocks), title.calls),
                        LAMBDA body : Result(<<"#", " ">> \o title.text \o <<NL>> \o body.text,
                                             body.calls)))

(***************************************************************************)
(* The parser machine: __init__ (_preprocess), then parse().               *)
(***************************************************************************)
\* no table scan is running (the state of the table variables under Spec)
TableIdle ==
    /\ table_block = NoPropertyTable
    /\ visited = <<>>
    /\ grid_data = <<>>
    /\ global_cell_cursor = 0
    /\ scan_pos = 0
    /\ table_pc = "idle"
    /\ table_out = None

\* a parser under construction on the document raw, with its collaborators
InitParser(raw, sdk_state, mode, dir) ==
    /\ raw_data_list = raw
    /\ sdk = sdk_state
    /\ table_mode = mode
    /\ assets_dir = dir
    /\ blocks_map = <<>>
    /\ root_block = NoBlock
    /\ parse_out = Result(<<>>, <<>>)
    /\ parse_history = <<>>
    /\ pc = "new"
    /\ TableIdle
    /\ ConvertIdle
    /\ WriteIdle
    /\ AuthIdle

AllOk == [m \in SdkMethods |-> "ok"]

Lower == <<"a", "b", "c", "d", "e", "f", "g", "h", "i", "j", "k", "l">>

InsertAt(seq, k, x) == SubSeq(seq, 1, k - 1) \o <<x>> \o SubSeq(seq, k, Len(seq))

\* ---- documents that are trees of text blocks ----
\* block i (i >= 2) is listed in the children of block parent[i], or of none (0)
Parents(n) == {f \in [2..n -> 0..(n - 1)] : \A i \in 2..n : f[i] < i}

ChildrenOf(j, n, parent) ==
    SelectSeq([i \in 1..n |-> i], LAMBDA i : i >= 2 /\ parent[i] = j)

\* n blocks with ids 1..n: block 1 of type root_type, the others of type kind but
\* block page_at, a PAGE; the items in fails do not decode; the children of
\* block 1 hold the unknown id n + 1 at position dangling (0: nowhere)
TreeDocument(n, parent, root_type, kind, page_at, fails, dangling) ==
    [i \in 1..n |->
        RawBlock(i,
                 IF i = 1 THEN root_type ELSE IF i = page_at THEN BT_PAGE ELSE kind,
                 IF i = 1 /\ dangling > 0
                 THEN InsertAt(ChildrenOf(1, n, parent), dangling, n + 1)
                 ELSE ChildrenOf(i, n, parent),
                 TextPayload(<<TextRun(<<Lower[i]>>)>>),
                 i \notin fails)]

InitTree ==
    \E n \in 0..MaxBlocks :
      \E parent \in Parents(n), root_type \in {BT_PAGE, BT_TEXT}, kind \in {BT_TEXT, BT_BULLET},
         page_at \in {0} \cup (2..n), fails \in SUBSET (1..n) :
        \E dangling \in 0..(Len(ChildrenOf(1, n, parent)) + 1) :
          /\ Cardinality(fails) <= 2
          /\ InitParser(TreeDocument(n, parent, root_type, kind, page_at, fails, dangling),
                        AllOk, "md", None)

\* ---- documents whose blocks call the collaborators ----
LeafKinds == {"image", "board", "sheet", "bitable", "mention", "text"}

\* the collaborator method a leaf of this kind calls
LeafMethod(kind) ==
    CASE kind = "image" -> "get_image"
      [] kind = "board" -> "get_whiteboard"
      [] kind = "sheet" -> "get_sheet"
      [] kind = "bitable" -> "get_bitable"
      [] kind = "mention" -> "get_user_name"
      [] OTHER -> "none"

LeafBlock(id, kind) ==
    CASE kind = "image" -> RawBlock(id, BT_IMAGE, <<>>, TokenPayload(<<"i", IntStr(id)[1]>>), TRUE)
      [] kind = "board" -> RawBlock(id, BT_BOARD, <<>>, TokenPayload(<<"w", IntStr(id)[1]>>), TRUE)
      [] kind = "sheet" -> RawBlock(id, BT_SHEET, <<>>, TokenPayload(<<"s", "_", IntStr(id)[1]>>), TRUE)
      [] kind = "bitable" -> RawBlock(id, BT_BITABLE, <<>>, TokenPayload(<<"b", "_", IntStr(id)[1]>>), TRUE)
      [] kind = "mention" ->
            RawBlock(id, BT_TEXT, <<>>,
                     TextPayload(<<TextRun(<<"h", "i", " ">>), MentionUser(<<"u", IntStr(id)[1]>>)>>), TRUE)
      [] OTHER -> RawBlock(id, BT_TEXT, <<>>, TextPayload(<<TextRun(<<Lower[id]>>)>>), TRUE)

\* a PAGE titled "T" whose children are leaves of the given kinds
LeafDocument(kinds) ==
    <<RawBlock(1, BT_PAGE, [k \in 1..Len(kinds) |-> k + 1], TextPayload(<<TextRun(<<"T">>)>>), TRUE)>>
        \o [k \in 1..Len(kinds) |-> LeafBlock(k + 1, kinds[k])]

InitLeaves ==
    \E m \in 1..MaxLeaves :
      \E kinds \in [1..m -> LeafKinds], sdk_state \in [SdkMethods -> {"ok", "fail", "raise"}],
         dir \in {None, <<"d", "o", "c">>} :
          /\ \A method \in SdkMethods :
                (\A k \in 1..m : LeafMethod(kinds[k]) # method) => sdk_state[method] = "ok"
          /\ InitParser(LeafDocument(kinds), sdk_state, "md", dir)

\* ---- a quote, quote container or callout holding one bullet item "x" ----
QuoteDocument(quote_type, quote_text, with_page) ==
    (IF with_page
     THEN <<RawBlock(1, BT_PAGE, <<2>>, TextPayload(<<TextRun(<<"T">>)>>), TRUE)>>
     ELSE <<>>)
    \o <<RawBlock(2, quote_type, <<3>>,
                  IF quote_type = BT_QUOTE_CONTAINER THEN NoPayload
                  ELSE TextPayload(IF quote_text = <<>> THEN <<>> ELSE <<TextRun(quote_text)>>),
                  TRUE),
         RawBlock(3, BT_BULLET, <<>>, TextPayload(<<TextRun(<<"x">>)>>), TRUE)>>

InitQuote ==
    \E quote_type \in {BT_QUOTE, BT_QUOTE_CONTAINER, BT_CALLOUT},
       quote_text \in {<<>>, <<"q">>}, with_page \in BOOLEAN :
        InitParser(QuoteDocument(quote_type, quote_text, with_page), AllOk, "md", None)

\* ---- a PAGE holding a 1 x 2 table: cells 3 and 4, their texts 5 and 6 ----
\* the table's cell list holds the unknown id 7 at position dangling (0:
\* nowhere), the page's children hold it first when page_dangling; item
\* failing (0: none) does not decode; the first cell spans col_span columns
TableDocument(dangling, page_dangling, failing, col_span) ==
    <<RawBlock(1, BT_PAGE, IF page_dangling THEN <<7, 2>> ELSE <<2>>,
               TextPayload(<<TextRun(<<"T">>)>>), failing # 1),
      RawBlock(2, BT_TABLE, IF dangling > 0 THEN InsertAt(<<3, 4>>, dangling, 7) ELSE <<3, 4>>,
               TablePayload(1, 2, <<<<1, col_span>>, <<1, 1>>>>), failing # 2),
      RawBlock(3, BT_TABLE_CELL, <<5>>, NoPayload, failing # 3),
      RawBlock(4, BT_TABLE_CELL, <<6>>, NoPayload, failing # 4),
      RawBlock(5, BT_TEXT, <<>>, TextPayload(<<TextRun(<<"a">>)>>), failing # 5),
      RawBlock(6, BT_TEXT, <<>>, TextPayload(<<TextRun(<<"b">>)>>), failing # 6)>>

InitTableDocument ==
    \E dangling \in 0..3, page_dangling \in BOOLEAN, failing \in 0..6, col_span \in 1..2,
       mode \in {"md", "html"} :
        InitParser(TableDocument(dangling, page_dangling, failing, col_span), AllOk, mode, None)

\* ---- a PAGE holding one text block of one styled text_run ----
StyledDocument(run) ==
    <<RawBlock(1, BT_PAGE, <<2>>, TextPayload(<<TextRun(<<"T">>)>>), TRUE),
      RawBlock(2, BT_TEXT, <<>>, TextPayload(<<run>>), TRUE)>>

\* the orders in which style attributes are set: the sequences without repetition
SetOrders ==
    {order \in UNION {[1..k -> StyleFlags] : k \in 0..Cardinality(StyleFlags)} :
        \A i, j \in 1..Len(order) : i # j => order[i] # order[j]}

\* the urls of the links: plain, and with an escaped space
Urls == {<<"u">>, <<"a", "%", "2", "0", "b">>}

InitStyled ==
    \E set_order \in SetOrders, url \in Urls :
        InitParser(StyledDocument(StyledTextRun(<<"t", "e", "x", "t">>, set_order, url)),
                   AllOk, "md", None)

\* ---- a PAGE holding one heading block ----
\* the texts of the headings: a word, a styled run after a plain one, no
\* element, and no payload under the key of the level
HeadingPayloads ==
    {TextPayload(<<TextRun(<<"H", "e", "l", "l", "o">>)>>),
     TextPayload(<<TextRun(<<"a", " ">>), StyledTextRun(<<"b">>, <<"bold">>, <<>>)>>),
     TextPayload(<<>>),
     NoPayload}

HeadingDocument(level, payload) ==
    <<RawBlock(1, BT_PAGE, <<2>>, TextPayload(<<TextRun(<<"T">>)>>), TRUE),
      RawBlock(2, BT_HEADING1 + level - 1, <<>>, payload, TRUE)>>

InitHeading ==
    \E level \in 1..(BT_HEADING9 - BT_HEADING1 + 1), payload \in HeadingPayloads :
        InitParser(HeadingDocument(level, payload), AllOk, "md", None)

\* ---- a PAGE holding one sheet, bitable or reference block ----
EmbeddedTypes == {BT_SHEET, BT_BITABLE, BT_REFERENCE_BLOCK}

\* the composite tokens: empty, without "_", with one "_" (the second part a
\* table id "tb..." or not), with more than one "_"
EmbeddedTokens ==
    {<<>>, <<"a", "b">>, <<"a", "_", "b">>, <<"a", "_", "t", "b", "1">>,
     <<"a", "_", "b", "_", "c">>, <<"a", "_", "t", "b", "1", "_", "c">>}

EmbeddedDocument(block_type, token) ==
    <<RawBlock(1, BT_PAGE, <<2>>, TextPayload(<<TextRun(<<"T">>)>>), TRUE),
      RawBlock(2, block_type, <<>>, TokenPayload(token), TRUE)>>

InitEmbedded ==
    \E block_type \in EmbeddedTypes, token \in EmbeddedTokens, outcome \in {"ok", "fail"},
       mode \in {"md", "html"} :
        InitParser(EmbeddedDocument(block_type, token),
                   [AllOk EXCEPT ![IF block_type = BT_SHEET THEN "get_sheet" ELSE "get_bitable"] = outcome],
                   mode, None)

\* ---- a PAGE whose title mentions a user, holding in the order given: a
\* bullet item (2) that mentions a user and holds an image (3), a 1 x 2 table
\* (4) whose cells (5, 6) hold a text with a mention (7) and a whiteboard
\* (8), and a sheet (9); the first cell of the table spans col_span columns ----
NestedDocument(order, col_span) ==
    <<RawBlock(1, BT_PAGE, order, TextPayload(<<TextRun(<<"T">>), MentionUser(<<"u", "1">>)>>), TRUE),
      RawBlock(2, BT_BULLET, <<3>>,
               TextPayload(<<TextRun(<<"h", "i", " ">>), MentionUser(<<"u", "2">>)>>), TRUE),
      RawBlock(3, BT_IMAGE, <<>>, TokenPayload(<<"i", "3">>), TRUE),
      RawBlock(4, BT_TABLE, <<5, 6>>, TablePayload(1, 2, <<<<1, col_span>>, <<1, 1>>>>), TRUE),
      RawBlock(5, BT_TABLE_CELL, <<7>>, NoPayload, TRUE),
      RawBlock(6, BT_TABLE_CELL, <<8>>, NoPayload, TRUE),
      RawBlock(7, BT_TEXT, <<>>, TextPayload(<<MentionUser(<<"u", "7">>), TextRun(<<"!">>)>>), TRUE),
      RawBlock(8, BT_BOARD, <<>>, TokenPayload(<<"w", "8">>), TRUE),
      RawBlock(9, BT_SHEET, <<>>, TokenPayload(<<"s", "_", "9">>), TRUE)>>

\* the orders of the page's children
ChildOrders == {<<2, 4, 9>>, <<2, 9, 4>>, <<4, 2, 9>>, <<4, 9, 2>>, <<9, 2, 4>>, <<9, 4, 2>>}

\* the collaborators with at most one method that does not answer normally
OneFailing ==
    {AllOk} \cup {[AllOk EXCEPT ![method] = outcome] : method \in SdkMethods, outcome \in {"fail", "raise"}}

InitNested ==
    \E order \in ChildOrders, col_span \in 1..2, sdk_state \in OneFailing, mode \in {"md", "html"} :
        InitParser(NestedDocument(order, col_span), sdk_state, mode, None)

\* ---- a PAGE holding one container block (2) whose children (3, 4, ...) are
\* text blocks: "empty" has no element, "blank" the text " ", "one" the text
\* "a", "two" the two lines "b" and "c" ----
ChildKinds == {"empty", "blank", "one", "two"}

ChildPayload(kind) ==
    CASE kind = "empty" -> TextPayload(<<>>)
      [] kind = "blank" -> TextPayload(<<TextRun(<<" ">>)>>)
      [] kind = "one" -> TextPayload(<<TextRun(<<"a">>)>>)
      [] OTHER -> TextPayload(<<TextRun(<<"b", NL, "c">>)>>)

\* the block types whose children _recursive_render combines, one of each
\* branch of lines 160-175 and of each own text
ContainerTypes ==
    {BT_QUOTE, BT_QUOTE_CONTAINER, BT_CALLOUT, BT_BULLET, BT_ORDERED, BT_TODO,
     BT_TEXT, BT_HEADING1, BT_TABLE_CELL}

ContainerDocument(container_type, own_text, kinds) ==
    <<RawBlock(1, BT_PAGE, <<2>>, TextPayload(<<TextRun(<<"T">>)>>), TRUE),
      RawBlock(2, container_type, [k \in 1..Len(kinds) |-> k + 2],
               IF container_type \in {BT_QUOTE_CONTAINER, BT_TABLE_CELL} THEN NoPayload
               ELSE TextPayload(IF own_text = <<>> THEN <<>> ELSE <<TextRun(own_text)>>),
               TRUE)>>
    \o [k \in 1..Len(kinds) |-> RawBlock(k + 2, BT_TEXT, <<>>, ChildPayload(kinds[k]), TRUE)]

\* the children lists of at most MaxChildren children
ChildLists == UNION {[1..n -> ChildKinds] : n \in 0..MaxChildren}

InitContainer ==
    \E container_type \in ContainerTypes, own_text \in {<<>>, <<"t">>}, kinds \in ChildLists :
        /\ own_text = <<>> => container_type \in {BT_TEXT, BT_QUOTE, BT_QUOTE_CONTAINER, BT_TABLE_CELL}
        /\ own_text # <<>> => container_type \notin {BT_QUOTE_CONTAINER, BT_TABLE_CELL}
        /\ InitParser(ContainerDocument(container_type, own_text, kinds), AllOk, "md", None)

\* ---- a PAGE (1) over blocks whose children lists name a block twice or
\* close a cycle: "shared" lists block 3 under the page and under block 2,
\* "self" lists block 2 under itself, "ancestor" block 2 under its child 3,
\* "root" the page under block 2, "cell" a table under its own cell ----
CycleKinds == {"shared", "self", "ancestor", "root", "cell"}

CycleDocument(kind) ==
    LET Page(children) == RawBlock(1, BT_PAGE, children, TextPayload(<<TextRun(<<"T">>)>>), TRUE)
        Block(id, type, children) ==
            RawBlock(id, type, children, TextPayload(<<TextRun(<<Lower[id]>>)>>), TRUE)
    IN  CASE kind = "shared" -> <<Page(<<2, 3>>), Block(2, BT_TEXT, <<3>>), Block(3, BT_TEXT, <<>>)>>
          [] kind = "self" -> <<Page(<<2>>), Block(2, BT_TEXT, <<2>>)>>
          [] kind = "ancestor" -> <<Page(<<2>>), Block(2, BT_BULLET, <<3>>), Block(3, BT_TEXT, <<2>>)>>
          [] kind = "root" -> <<Page(<<2>>), Block(2, BT_TEXT, <<1>>)>>
          [] OTHER -> <<Page(<<2>>),
                        RawBlock(2, BT_TABLE, <<3>>, TablePayload(1, 1, <<<<1, 1>>>>), TRUE),
                        RawBlock(3, BT_TABLE_CELL, <<2>>, NoPayload, TRUE)>>

InitCycle ==
    \E kind \in CycleKinds, mode \in {"md", "html"} :
        InitParser(CycleDocument(kind), AllOk, mode, None)

Init ==
    \/ InitTree \/ InitLeaves \/ InitQuote \/ InitTableDocument \/ InitStyled \/ InitHeading
    \/ InitEmbedded \/ InitNested \/ InitContainer \/ InitCycle

\* DocumentParser.__init__: _preprocess builds blocks_map and picks root_block
Preprocess ==
    /\ pc = "new"
    /\ blocks_map' = BuildBlocksMap(raw_data_list)
    /\ root_block' = SelectRoot(raw_data_list, BuildBlocksMap(raw_data_list), MapOrder(raw_data_list))
    /\ pc' = "ready"
    /\ UNCHANGED <<raw_data_list, sdk, table_mode, assets_dir, parse_out, parse_history>>
    /\ UNCHANGED table_vars
    /\ UNCHANGED convert_vars
    /\ UNCHANGED write_vars
    /\ UNCHANGED auth_vars

\* Parse that leaves the parser without the children of its root block
ParseDetachingChildren ==
    /\ pc \in {"ready", "done"}
    /\ Len(parse_history) < MaxParses
    /\ parse_out' = ParseResult(ParserState(sdk, table_mode, assets_dir, blocks_map), root_block)
    /\ parse_history' = Append(parse_history, parse_out')
    /\ blocks_map' = [id \in DOMAIN blocks_map |->
                        IF id = root_block THEN [blocks_map[id] EXCEPT !.sub_blocks = <<>>]
                        ELSE blocks_map[id]]
    /\ pc' = "done"
    /\ UNCHANGED <<raw_data_list, sdk, table_mode, assets_dir, root_block>>
    /\ UNCHANGED table_vars
    /\ UNCHANGED convert_vars
    /\ UNCHANGED write_vars
    /\ UNCHANGED auth_vars

\* parse(), on a parser that is constructed: the call may be the first or a
\* later one; it assigns no attribute of the parser or of a block
Parse ==
    /\ pc \in {"ready", "done"}
    /\ Len(parse_history) < MaxParses
    /\ parse_out' = ParseResult(ParserState(sdk, table_mode, assets_dir, blocks_map), root_block)
    /\ parse_history' = Append(parse_history, parse_out')
    /\ pc' = "done"
    /\ UNCHANGED <<raw_data_list, sdk, table_mode, assets_dir, blocks_map, root_block>>
    /\ UNCHANGED table_vars
    /\ UNCHANGED convert_vars
    /\ UNCHANGED write_vars
    /\ UNCHANGED auth_vars

Next == Preprocess \/ Parse

Spec == Init /\ [][Next]_vars

(***************************************************************************)
(* The converter machine: convert() on the syntax nodes of a Markdown      *)
(* text, one iteration of its loop per step.                               *)
(***************************************************************************)
\* no parser is under construction (the state of the parser variables under
\* the specification of the converter)
ParserIdle ==
    /\ raw_data_list = <<>>
    /\ sdk = AllOk
    /\ table_mode = "md"
    /\ assets_dir = None
    /\ blocks_map = <<>>
    /\ root_block = NoBlock
    /\ parse_out = Result(<<>>, <<>>)
    /\ parse_history = <<>>
    /\ pc = "idle"

\* the inline children the nodes of the model hold
PlainInline == <<Text(<<"a">>)>>

Inlines ==
    {PlainInline,
     <<Text(<<"a">>), Strong(<<Text(<<"b">>)>>)>>,
     <<Emphasis(<<Text(<<"a">>), Strong(<<Text(<<"b">>)>>)>>)>>,
     <<Codespan(<<"d">>)>>,
     <<Link(<<"u">>, <<Text(<<"t">>)>>)>>,
     <<Text(<<"a">>), Softbreak, Text(<<"b">>)>>}

\* the info strings of the fenced code nodes: none, mapped, mapped when
\* lowercased, unmapped
Infos == {<<>>, <<"p", "y", "t", "h", "o", "n">>, <<"G", "o">>, <<"m", "e", "r", "m", "a", "i", "d">>}

\* the node of a python fence whose body is print(1)
PythonFence == BlockCode(<<"p", "y", "t", "h", "o", "n">>, <<"p", "r", "i", "n", "t", "(", "1", ")", NL>>)

\* the block-level nodes of the model
ContentTokens ==
    {Heading(level, PlainInline) : level \in 1..6}
    \cup {Paragraph(children) : children \in Inlines}
    \cup {BlockCode(info, <<"x", NL>>) : info \in Infos}
    \cup {PythonFence, BlockCode(<<>>, <<" ", " ", "y", NL, NL, "z", NL>>)}
    \cup {BlockQuote(<<Paragraph(children)>>) : children \in {PlainInline, <<Codespan(<<"d">>)>>}}
    \cup {BlockQuote(<<Paragraph(<<Text(<<"a">>)>>), Paragraph(<<Text(<<"b">>)>>)>>)}
    \cup {ThematicBreak}
    \cup {BlockHtml(<<"<", "h", "r", "/", ">", NL>>)}
    \cup {List(ordered, <<ListItem(<<Paragraph(<<Text(<<"a">>)>>)>>),
                          ListItem(<<BlockText(<<Text(<<"b">>)>>)>>)>>) : ordered \in BOOLEAN}

\* Markdown lets the second node follow the first without a blank line between
MayFollow(first, second) ==
    \/ first.type \in {"heading", "block_code", "thematic_break"}
    \/ second.type \in {"heading", "block_code", "block_html"}

\* the nodes of a text whose blocks are content; blank says whether a blank
\* line separates them
TokensOf(content, blank) ==
    Cat([k \in 1..Len(content) |->
            IF blank /\ k < Len(content) THEN <<content[k], BlankLine>> ELSE <<content[k]>>])

\* the children of a list item: a paragraph (loose item), a block_text
\* (tight item), either with a nested list after it, two paragraphs, a
\* paragraph and a code block, nothing
ItemShapes ==
    {<<Paragraph(<<Text(<<"a">>)>>)>>,
     <<BlockText(<<Text(<<"b">>)>>)>>,
     <<BlockText(<<Text(<<"c">>)>>), List(FALSE, <<ListItem(<<BlockText(<<Text(<<"d">>)>>)>>)>>)>>,
     <<Paragraph(<<Text(<<"a">>), Strong(<<Text(<<"b">>)>>)>>),
       List(TRUE, <<ListItem(<<Paragraph(<<Text(<<"d">>)>>)>>)>>)>>,
     <<Paragraph(<<Text(<<"a">>)>>), Paragraph(<<Codespan(<<"d">>)>>)>>,
     <<Paragraph(<<Text(<<"a">>)>>), BlockCode(<<>>, <<"x", NL>>)>>,
     <<>>}

\* the list nodes of at most MaxItems items
ListNodes ==
    {List(ordered, [k \in 1..Len(shapes) |-> ListItem(shapes[k])]) :
        ordered \in BOOLEAN, shapes \in UNION {[1..m -> ItemShapes] : m \in 1..MaxItems}}

\* convert() is entered: line 85 has given the syntax nodes toks
InitConvertWith(toks) ==
    /\ tokens = toks
    /\ blocks = <<>>
    /\ token_pos = 0
    /\ convert_pc = "loop"
    /\ TableIdle
    /\ ParserIdle
    /\ WriteIdle
    /\ AuthIdle

InitConvert ==
    \/ \E n \in 0..MaxTokens :
         \E content \in [1..n -> ContentTokens], blank \in BOOLEAN :
           /\ blank \/ \A k \in 1..(n - 1) : MayFollow(content[k], content[k + 1])
           /\ InitConvertWith(TokensOf(content, blank))
    \/ \E list \in ListNodes, after \in {<<>>, <<BlankLine, Paragraph(PlainInline)>>} :
           InitConvertWith(<<list>> \o after)

\* lines 88-94: the loop body for the next token
ConvertStep ==
    /\ convert_pc = "loop"
    /\ token_pos < Len(tokens)
    /\ blocks' = blocks \o ConvertToken(tokens[token_pos + 1])
    /\ token_pos' = token_pos + 1
    /\ UNCHANGED <<tokens, convert_pc>>
    /\ UNCHANGED table_vars
    /\ UNCHANGED parser_vars
    /\ UNCHANGED write_vars
    /\ UNCHANGED auth_vars

\* line 96: the loop is over, convert returns blocks
ConvertReturn ==
    /\ convert_pc = "loop"
    /\ token_pos = Len(tokens)
    /\ convert_pc' = "done"
    /\ UNCHANGED <<tokens, blocks, token_pos>>
    /\ UNCHANGED table_vars
    /\ UNCHANGED parser_vars
    /\ UNCHANGED write_vars
    /\ UNCHANGED auth_vars

NextConvert == ConvertStep \/ ConvertReturn

SpecConvert == InitConvert /\ [][NextConvert]_vars

(***************************************************************************)
(* FeishuWriter.write_content (core/writer.py) on DocxAPI (core/sdk/       *)
(* docx.py).  The server holds the children of the document's root block;  *)
(* a block is known by a number: the blocks the document holds before the  *)
(* write are negative, the k-th block of the conversion is k.              *)
(***************************************************************************)
chunk_size == 50
batch_size == 200
max_rounds == 20

\* no parser, table scan or conversion is running
OthersIdle ==
    /\ TableIdle
    /\ ParserIdle
    /\ ConvertIdle

\* what the conversion of a Markdown text of count blocks returns
ConvertedBlocks(count) == [k \in 1..count |-> k]

\* the server's children after a create request of chunk at index (-1: no index, at the end)
InsertChunk(server_children, chunk, index) ==
    IF index < 0 \/ index >= Len(server_children) THEN server_children \o chunk
    ELSE SubSeq(server_children, 1, index) \o chunk
            \o SubSeq(server_children, index + 1, Len(server_children))

RECURSIVE ClearRounds(_, _)
\* the loop of clear_document, every request answered: what is left of the
\* children after the rounds from round number rounds on
ClearRounds(server_children, rounds) ==
    IF rounds >= max_rounds \/ server_children = <<>> THEN server_children
    ELSE ClearRounds(SubSeq(server_children, Min(Len(server_children), batch_size) + 1,
                            Len(server_children)),
                     rounds + 1)

\* clear_document: the children it leaves
ClearDocument(server_children) == ClearRounds(server_children, 0)

\* the numbers of blocks a text converts to: none, some, a full chunk, more
BlockCounts == {0, 1, 2, chunk_size, chunk_size + 1}

\* the children the document holds before the write
ExistingChildren == {<<>>, <<-1>>, <<-1, -2>>}

\* the call made: write_content, or create_blocks itself with an index
Entries == {"write_content", "create_blocks"}

InitWrite ==
    \E entry \in Entries,
       given \in {"content", "file_path", "none"}, append \in BOOLEAN, use_native_api \in BOOLEAN,
       count \in BlockCounts, before \in ExistingChildren,
       convert_answer \in {"ok", "raise"}, create_fails_at \in 0..MaxChunks :
      \E index \in (-1)..Len(before) :
        /\ (~use_native_api => convert_answer = "ok")
        /\ create_fails_at * chunk_size < count + chunk_size
        /\ (entry = "write_content" => index = -1)
        /\ (entry = "create_blocks" => given = "content" /\ append /\ ~use_native_api)
        /\ doc_children = before
        /\ write_args = [entry |-> entry, given |-> given, append |-> append,
                         use_native_api |-> use_native_api,
                         count |-> count, before |-> before, index |-> index]
        /\ new_blocks = <<>>
        /\ sent = 0
        /\ current_index = -1
        /\ write_calls = <<>>
        /\ write_out = None
        /\ write_pc = "start"
        /\ answers = [convert |-> convert_answer, create_fails_at |-> create_fails_at]
        /\ OthersIdle
        /\ AuthIdle

\* writer.py lines 106-134 up to the call of create_blocks: the content is
\* read and converted; nothing is written for an empty block list
WriteContent ==
    /\ write_pc = "start"
    /\ write_args.entry = "write_content"
    /\ IF write_args.given = "none"
       THEN /\ write_pc' = "raised"
            /\ UNCHANGED <<new_blocks, write_calls, write_out>>
       ELSE IF write_args.use_native_api /\ answers.convert = "raise"
       THEN /\ write_pc' = "raised"
            /\ write_calls' = Append(write_calls, <<"convert_markdown">>)
            /\ UNCHANGED <<new_blocks, write_out>>
       ELSE /\ new_blocks' = ConvertedBlocks(write_args.count)
            /\ write_calls' = IF write_args.use_native_api
                              THEN Append(write_calls, <<"convert_markdown">>)
                              ELSE write_calls
            /\ IF write_args.count = 0
               THEN write_pc' = "done" /\ write_out' = [value |-> <<>>]
               ELSE write_pc' = "create" /\ write_out' = write_out
    /\ UNCHANGED <<doc_children, write_args, sent, current_index, answers>>
    /\ UNCHANGED table_vars
    /\ UNCHANGED parser_vars
    /\ UNCHANGED convert_vars
    /\ UNCHANGED auth_vars

\* docx.py lines 145-161: create_blocks called with children and an index
CreateBlocks ==
    /\ write_pc = "start"
    /\ write_args.entry = "create_blocks"
    /\ new_blocks' = ConvertedBlocks(write_args.count)
    /\ current_index' = write_args.index
    /\ write_pc' = "create"
    /\ UNCHANGED <<doc_children, write_args, sent, write_calls, write_out, answers>>
    /\ UNCHANGED table_vars
    /\ UNCHANGED parser_vars
    /\ UNCHANGED convert_vars
    /\ UNCHANGED auth_vars

\* one chunk, one request, current_index left where it was
CreateChunkFixedIndex ==
    /\ write_pc = "create"
    /\ sent < Len(new_blocks)
    /\ LET chunk == SubSeq(new_blocks, sent + 1, Min(sent + chunk_size, Len(new_blocks)))
       IN  /\ write_calls' = Append(write_calls, <<"create_blocks", chunk, current_index>>)
           /\ IF answers.create_fails_at = sent \div chunk_size + 1
              THEN /\ write_pc' = "raised"
                   /\ UNCHANGED <<doc_children, sent, current_index>>
              ELSE /\ doc_children' = InsertChunk(doc_children, chunk, current_index)
                   /\ sent' = sent + Len(chunk)
                   /\ current_index' = current_index
                   /\ write_pc' = write_pc
    /\ UNCHANGED <<write_args, new_blocks, write_out, answers>>
    /\ UNCHANGED table_vars
    /\ UNCHANGED parser_vars
    /\ UNCHANGED convert_vars
    /\ UNCHANGED auth_vars

\* docx.py lines 163-195: one chunk, one request
CreateChunk ==
    /\ write_pc = "create"
    /\ sent < Len(new_blocks)
    /\ LET chunk == SubSeq(new_blocks, sent + 1, Min(sent + chunk_size, Len(new_blocks)))
       IN  /\ write_calls' = Append(write_calls, <<"create_blocks", chunk, current_index>>)
           /\ IF answers.create_fails_at = sent \div chunk_size + 1
              THEN /\ write_pc' = "raised"
                   /\ UNCHANGED <<doc_children, sent, current_index>>
              ELSE /\ doc_children' = InsertChunk(doc_children, chunk, current_index)
                   /\ sent' = sent + Len(chunk)
                   /\ current_index' = IF current_index >= 0 THEN current_index + Len(chunk)
                                       ELSE current_index
                   /\ write_pc' = write_pc
    /\ UNCHANGED <<write_args, new_blocks, write_out, answers>>
    /\ UNCHANGED table_vars
    /\ UNCHANGED parser_vars
    /\ UNCHANGED convert_vars
    /\ UNCHANGED auth_vars

\* docx.py line 197, writer.py line 129: the created children are returned
CreateReturn ==
    /\ write_pc = "create"
    /\ sent >= Len(new_blocks)
    /\ write_out' = [value |-> SubSeq(new_blocks, 1, sent)]
    /\ write_pc' = "done"
    /\ UNCHANGED <<doc_children, write_args, new_blocks, sent, current_index, write_calls, answers>>
    /\ UNCHANGED table_vars
    /\ UNCHANGED parser_vars
    /\ UNCHANGED convert_vars
    /\ UNCHANGED auth_vars

NextWrite == WriteContent \/ CreateBlocks \/ CreateChunk \/ CreateReturn

SpecWrite == InitWrite /\ [][NextWrite]_vars

(***************************************************************************)
(* TenantAuthenticator.get_token (auth/tenant.py).  Time is in seconds; a  *)
(* token is known by a number: 0 is the empty token, -1 a token a former   *)
(* process left in the cache, k > 0 the k-th token the endpoint issues to  *)
(* this process.                                                           *)
(***************************************************************************)
\* the seconds of validity under which a cached token is not used any more
RefreshWindow == 1800

\* data.get("expire", 7200)
DefaultExpire == 7200

\* tenant_token.json does not exist
CacheMissing == [kind |-> "missing", token |-> 0, expires_at |-> 0]

\* tenant_token.json cannot be read or is not JSON
CacheUnreadable == [kind |-> "unreadable", token |-> 0, expires_at |-> 0]

\* tenant_token.json as _save_to_cache writes it
CacheHolding(token, expires_at) == [kind |-> "valid", token |-> token, expires_at |-> expires_at]

\* get_token that still uses a token with exactly the window left
StillFreshInclusive(now, expires_at) == now <= expires_at - RefreshWindow

\* time.time() < self._expires_at - 1800
StillFresh(now, expires_at) == now < expires_at - RefreshWindow

\* the instants at which something happens: around the multiples of the window
Instants ==
    {k * RefreshWindow + e : k \in 0..MaxWindows, e \in {-1, 0, 1}} \ {-1}

\* the lifetimes the endpoint grants
Expires == {DefaultExpire, RefreshWindow, RefreshWindow + 1}

\* no call yet
NoCall == <<>>

InitAuth ==
    \E cache \in {CacheMissing, CacheUnreadable, CacheHolding(0, DefaultExpire)}
                    \cup {CacheHolding(-1, e) : e \in {RefreshWindow, RefreshWindow + 1, DefaultExpire}} :
        /\ clock = 0
        /\ cache_file = cache
        /\ self_token = 0
        /\ self_expires_at = 0
        /\ issued = 0
        /\ last_call = NoCall
        /\ OthersIdle
        /\ WriteIdle

\* time passes
Tick ==
    /\ \E t \in Instants : t > clock /\ clock' = t
    /\ UNCHANGED <<cache_file, self_token, self_expires_at, issued, last_call>>
    /\ UNCHANGED table_vars
    /\ UNCHANGED parser_vars
    /\ UNCHANGED convert_vars
    /\ UNCHANGED write_vars

\* the cache file is deleted
CacheRemoved ==
    /\ cache_file.kind # "missing"
    /\ cache_file' = CacheMissing
    /\ UNCHANGED <<clock, self_token, self_expires_at, issued, last_call>>
    /\ UNCHANGED table_vars
    /\ UNCHANGED parser_vars
    /\ UNCHANGED convert_vars
    /\ UNCHANGED write_vars

\* the cache file is damaged
CacheCorrupted ==
    /\ cache_file.kind = "valid"
    /\ cache_file' = CacheUnreadable
    /\ UNCHANGED <<clock, self_token, self_expires_at, issued, last_call>>
    /\ UNCHANGED table_vars
    /\ UNCHANGED parser_vars
    /\ UNCHANGED convert_vars
    /\ UNCHANGED write_vars

\* get_token(): _load_from_cache, the test of the validity left, and
\* _fetch_token with _save_to_cache when the cached token is not returned;
\* the endpoint answers with a token and a lifetime ("ok"), with an error
\* code ("error"), or the request raises ("raise")
GetToken ==
    /\ \E answer \in {"ok", "error", "raise"}, expire \in Expires :
           LET readable == cache_file.kind = "valid"
               loaded_token == IF readable THEN cache_file.token ELSE self_token
               loaded_expires_at == IF readable THEN cache_file.expires_at ELSE self_expires_at
               loaded == readable /\ cache_file.token # 0
               cached == loaded /\ StillFresh(clock, loaded_expires_at)
               Call(contacted, raised, returned, after) ==
                   [time |-> clock, cache_before |-> cache_file, contacted |-> contacted,
                    raised |-> raised, returned |-> returned, expire |-> expire, cache_after |-> after]
           IN  IF cached
               THEN /\ answer = "ok" /\ expire = DefaultExpire
                    /\ self_token' = loaded_token
                    /\ self_expires_at' = loaded_expires_at
                    /\ last_call' = Call(FALSE, FALSE, loaded_token, cache_file)
                    /\ UNCHANGED <<cache_file, issued>>
               ELSE IF answer = "ok"
               THEN /\ issued < MaxFetches
                    /\ issued' = issued + 1
                    /\ self_token' = issued + 1
                    /\ self_expires_at' = clock + expire
                    /\ cache_file' = CacheHolding(issued + 1, clock + expire)
                    /\ last_call' = Call(TRUE, FALSE, issued + 1, cache_file')
               ELSE /\ expire = DefaultExpire
                    /\ self_token' = loaded_token
                    /\ self_expires_at' = loaded_expires_at
                    /\ last_call' = Call(TRUE, TRUE, 0, cache_file)
                    /\ UNCHANGED <<cache_file, issued>>
    /\ UNCHANGED clock
    /\ UNCHANGED table_vars
    /\ UNCHANGED parser_vars
    /\ UNCHANGED convert_vars
    /\ UNCHANGED write_vars

NextAuth == Tick \/ CacheRemoved \/ CacheCorrupted \/ GetToken

SpecAuth == InitAuth /\ [][NextAuth]_vars

(***************************************************************************)
(* Properties of the grid scan (SpecTable).                                *)
(***************************************************************************)
GridPositions == Positions(table_block.row_size, table_block.column_size)

\* the origin cells: the positions that hold grid data
Origins == {p \in GridPositions : grid_data[p] # None}

\* the span rectangle of an origin, as stored with it
SpanRect(o) ==
    {<<o[1] + dr, o[2] + dc>> : dr \in 0..(grid_data[o][2] - 1), dc \in 0..(grid_data[o][3] - 1)}

\* the origins whose span rectangle holds p
CoveringOrigins(p) == {o \in Origins : p \in SpanRect(o)}

\* the nested loops of _render_table have run to the end
ScanDone ==
    /\ table_block.has_property
    /\ scan_pos = table_block.row_size * table_block.column_size

\* C1 as claimed: after the grid scan every position lies inside the span
\* rectangle of exactly one origin cell, whatever the merge_info spans are.
C1_CoveredExactlyOnce ==
    ScanDone => \A p \in GridPositions : Cardinality(CoveringOrigins(p)) = 1

\* C1 as amended: after the grid scan every position lies inside the span
\* rectangle of at least one origin cell (no position is left uncovered), and
\* of exactly one when no two origins' span rectangles overlap.
C1_NoGaps ==
    ScanDone =>
        /\ \A p \in GridPositions : CoveringOrigins(p) # {}
        /\ (\A o1, o2 \in Origins : o1 # o2 => SpanRect(o1) \cap SpanRect(o2) = {})
              => \A p \in GridPositions : Cardinality(CoveringOrigins(p)) = 1

\* C1's case: a finished scan of a table with a merged origin cell and a
\* position that is covered without being an origin
C1_Witness ==
    /\ ScanDone
    /\ \E o \in Origins : grid_data[o][2] > 1 \/ grid_data[o][3] > 1
    /\ Origins # GridPositions

\* the table of the merged-table scenario: 2 x 2, cell (0,0) spans two rows,
\* the cell blocks hold "A", "B", "C", Markdown mode
MergedTableScenario ==
    /\ table_block.has_property
    /\ table_block.row_size = 2 /\ table_block.column_size = 2
    /\ SpanAt(table_block.merge_info, 0) = <<2, 1>>
    /\ SpanAt(table_block.merge_info, 1) = <<1, 1>>
    /\ SpanAt(table_block.merge_info, 3) = <<1, 1>>
    /\ table_block.cells = <<<<<<"A">>>>, <<<<"B">>>>, <<<<"C">>>>>>
    /\ table_block.table_mode = "md"

\* C10: for the 2x2 table whose cell (0,0) has row_span 2 and col_span 1 and
\* whose cell blocks hold "A", "B", "C", the origins are exactly (0,0), (0,1),
\* (1,1) and the Markdown output is two rows of two cells: A and B in row 0,
\* a blank placeholder and C in row 1 (the separator row after row 0).
C10_MergedTable ==
    (MergedTableScenario /\ table_pc = "done") =>
        /\ Origins = {<<0, 0>>, <<0, 1>>, <<1, 1>>}
        /\ grid_data[<<0, 0>>] = <<<<"A">>, 2, 1>>
        /\ grid_data[<<0, 1>>] = <<<<"B">>, 1, 1>>
        /\ grid_data[<<1, 0>>] = None
        /\ grid_data[<<1, 1>>] = <<<<"C">>, 1, 1>>
        /\ table_out = <<"|", " ", "A", " ", "|", " ", "B", " ", "|", NL,
                         "|", " ", "-", "-", "-", " ", "|", " ", "-", "-", "-", " ", "|", NL,
                         "|", " ", " ", " ", "|", " ", "C", " ", "|">>

\* C10's case: the scenario's table has been rendered
C10_Witness == MergedTableScenario /\ table_pc = "done"

\* the origins in row-major order
OriginSeq ==
    SelectSeq([k \in 1..(table_block.row_size * table_block.column_size) |->
                    <<(k - 1) \div table_block.column_size, (k - 1) % table_block.column_size>>],
              LAMBDA p : grid_data[p] # None)

\* C14: when the table has fewer cell blocks than origins, the first origins
\* in row-major order hold the texts of the cell blocks, in order, every
\* further origin holds the empty text, each origin holds its span, and the
\* render returns the table text
C14_MissingCells ==
    /\ (ScanDone /\ Len(table_block.cells) < Len(OriginSeq)) =>
            /\ global_cell_cursor = Len(table_block.cells)
            /\ \A k \in 1..Len(OriginSeq) :
                    LET o == OriginSeq[k]
                    IN  /\ grid_data[o][1] = (IF k <= Len(table_block.cells)
                                              THEN Join(BR, table_block.cells[k])
                                              ELSE <<>>)
                        /\ <<grid_data[o][2], grid_data[o][3]>> =
                                SpanAt(table_block.merge_info, o[1] * table_block.column_size + o[2])
    /\ (table_pc = "done" /\ table_block.has_property /\ Len(table_block.cells) < Len(OriginSeq)) =>
            /\ table_out # None
            /\ table_out = EmitTable(table_block, grid_data)

\* C14's case: a rendered table with a merged origin that no cell block was
\* left for
C14_Witness ==
    /\ table_pc = "done"
    /\ table_block.has_property
    /\ 0 < Len(table_block.cells)
    /\ Len(table_block.cells) < Len(OriginSeq)
    /\ \E k \in (Len(table_block.cells) + 1)..Len(OriginSeq) :
            grid_data[OriginSeq[k]][2] > 1 \/ grid_data[OriginSeq[k]][3] > 1

\* the position the loops are at
ScanPosition == <<scan_pos \div table_block.column_size, scan_pos % table_block.column_size>>

\* the loop body runs once
ScanStepTaken == table_pc = "scan" /\ table_block.has_property /\ scan_pos' = scan_pos + 1

\* the positions the loops have passed
Passed == {q \in GridPositions : q[1] * table_block.column_size + q[2] < scan_pos}

\* C23: in every step of the row-major scan, the position reached holds no
\* grid data yet (it is taken as an origin at most once); when it is marked
\* visited the step assigns nothing; when it is not, it becomes an origin, no
\* other position's grid data changes, and its span contains no earlier
\* origin and marks no position the scan has passed
C23_OriginInvariant ==
    [][ScanStepTaken =>
            LET p == ScanPosition
            IN  /\ grid_data[p] = None
                /\ \A q \in GridPositions \ Passed : grid_data[q] = None
                /\ visited[p] =>
                        /\ grid_data' = grid_data
                        /\ visited' = visited
                        /\ global_cell_cursor' = global_cell_cursor
                /\ ~visited[p] =>
                        /\ grid_data'[p] # None
                        /\ \A q \in GridPositions \ {p} : grid_data'[q] = grid_data[q]
                        /\ \A q \in Passed : visited'[q] = visited[q]
                        /\ \A o \in Origins :
                                ~(/\ o[1] \in p[1]..(p[1] + grid_data'[p][2] - 1)
                                  /\ o[2] \in p[2]..(p[2] + grid_data'[p][3] - 1))]_vars

\* C23's case: the scan of a table has skipped a position inside the span
\* of its first origin and has taken a later position as a merged origin
C23_Witness ==
    /\ ScanDone
    /\ grid_data[<<0, 0>>] # None
    /\ \E q \in SpanRect(<<0, 0>>) \cap GridPositions : grid_data[q] = None
    /\ \E o \in Origins \ {<<0, 0>>} : grid_data[o][2] > 1 \/ grid_data[o][3] > 1

\* C24: a step of the scan takes a cell block exactly when the position is
\* an origin and a cell block is left: the block at the cursor, its inner
\* texts joined with "<br>", the cursor moving on by one; any other step
\* leaves the cursor where it is.  So the cursor is the number of origins
\* that got a block, and the k-th origin holds the k-th cell block.
C24_CellConsumption ==
    [][ScanStepTaken =>
            LET p == ScanPosition
                takes == ~visited[p] /\ global_cell_cursor < Len(table_block.cells)
            IN  /\ takes =>
                        /\ grid_data'[p][1] = Join(BR, table_block.cells[global_cell_cursor + 1])
                        /\ global_cell_cursor' = global_cell_cursor + 1
                /\ ~takes => global_cell_cursor' = global_cell_cursor
                /\ global_cell_cursor' = Min(Len(OriginSeq'), Len(table_block.cells))
                /\ \A k \in 1..global_cell_cursor' :
                        grid_data'[OriginSeq'[k]][1] = Join(BR, table_block.cells[k])]_vars

\* C24's case: a finished scan in which a merged origin was followed by
\* another origin, every origin with a cell block of its own
C24_Witness ==
    /\ ScanDone
    /\ Len(OriginSeq) >= 2
    /\ Len(OriginSeq) < table_block.row_size * table_block.column_size
    /\ global_cell_cursor = Len(OriginSeq)
    /\ table_block.cells[1] # table_block.cells[2]

\* the lines of a text: the runs of characters between its newlines
LinesOf(s) ==
    LET breaks == {i \in 1..Len(s) : s[i] = NL}
        BreakNo(k) == IF k = 0 THEN 0
                      ELSE IF k > Cardinality(breaks) THEN Len(s) + 1
                      ELSE CHOOSE i \in breaks : Cardinality({j \in breaks : j < i}) = k - 1
    IN  [k \in 1..(Cardinality(breaks) + 1) |-> SubSeq(s, BreakNo(k - 1) + 1, BreakNo(k) - 1)]

RECURSIVE SplitUnescaped(_, _, _)
\* the pieces of a line between its "|" characters, a "|" that follows a
\* backslash being part of the piece
SplitUnescaped(line, cur, after_backslash) ==
    IF line = <<>> THEN <<cur>>
    ELSE IF Head(line) = "|" /\ ~after_backslash
         THEN <<cur>> \o SplitUnescaped(Tail(line), <<>>, FALSE)
    ELSE SplitUnescaped(Tail(line), Append(cur, Head(line)), Head(line) = "\\")

\* the cells of a line of a Markdown table: the pieces between the outer
\* "|", each without the blank on either side; <<>> when the line is not
\* "| cell | ... | cell |"
CellsOfLine(line) ==
    LET pieces == SplitUnescaped(line, <<>>, FALSE)
        inner == SubSeq(pieces, 2, Len(pieces) - 1)
    IN  IF /\ Len(pieces) >= 3
           /\ pieces[1] = <<>>
           /\ pieces[Len(pieces)] = <<>>
           /\ \A i \in 1..Len(inner) :
                /\ Len(inner[i]) >= 2
                /\ inner[i][1] = " "
                /\ inner[i][Len(inner[i])] = " "
        THEN [i \in 1..Len(inner) |-> SubSeq(inner[i], 2, Len(inner[i]) - 1)]
        ELSE <<>>

\* the content of a cell with each "|" written "\|" and each newline "<br>"
EscapedCell(content) ==
    Cat([i \in 1..Len(content) |->
            IF content[i] = "|" THEN <<"\\", "|">>
            ELSE IF content[i] = NL THEN BR
            ELSE <<content[i]>>])

\* _render_table has returned in this mode
TableRendered(mode) ==
    table_pc = "done" /\ table_block.has_property /\ table_block.table_mode = mode

\* C25: the Markdown output has row_count + 1 lines: the first row, the
\* separator row of col_count "---" cells, then the other rows; every row
\* has col_count cells; the cell of a spanned non-origin position is one
\* blank, the cell of an origin is its content with "|" as "\|" and the
\* newline as "<br>"
C25_MarkdownShape ==
    TableRendered("md") =>
        LET rows == table_block.row_size
            cols == table_block.column_size
            LineOfRow(r) == IF r = 0 THEN 1 ELSE r + 2
        IN  \A lines \in {LinesOf(table_out)} :
            /\ Len(lines) = rows + 1
            /\ CellsOfLine(lines[2]) = [c \in 1..cols |-> <<"-", "-", "-">>]
            /\ \A r \in 0..(rows - 1) :
                  \A cells \in {CellsOfLine(lines[LineOfRow(r)])} :
                        /\ Len(cells) = cols
                        /\ \A c \in 0..(cols - 1) :
                                cells[c + 1] = (IF grid_data[<<r, c>>] = None THEN <<" ">>
                                                ELSE EscapedCell(grid_data[<<r, c>>][1]))

\* C25's case: a rendered two-row Markdown table with a spanned position
\* and an origin whose content holds a "|" and a newline
C25_Witness ==
    /\ TableRendered("md")
    /\ table_block.row_size = 2
    /\ \E q \in GridPositions : grid_data[q] = None
    /\ \E o \in Origins : \E i, j \in 1..Len(grid_data[o][1]) :
            grid_data[o][1][i] = "|" /\ grid_data[o][1][j] = NL

\* s starts with prefix
StartsWith(s, prefix) == Len(s) >= Len(prefix) /\ SubSeq(s, 1, Len(prefix)) = prefix

\* s holds part
Contains(s, part) == \E i \in 0..(Len(s) - Len(part)) : SubSeq(s, i + 1, i + Len(part)) = part

\* the lines of the HTML output that open a <td>
TdLines == SelectSeq(LinesOf(table_out), LAMBDA line : StartsWith(line, <<" ", " ", " ", " ", "<", "t", "d">>))

\* C26: the HTML output is "<table>", for every grid row the line "<tr>",
\* one <td> line per origin of the row and the line "</tr>", then "</table>":
\* as many <tr> as rows, as many <td> as origins, none for a spanned
\* position; the <td> of an origin has a rowspan attribute exactly when its
\* row span is above 1 and a colspan attribute exactly when its column span
\* is above 1, each with the span as value
C26_HtmlShape ==
    TableRendered("html") =>
        LET OriginsOfRow(r) == Cardinality({o \in Origins : o[1] = r})
            LineOfTr(r) == 2 + 2 * r + Cardinality({o \in Origins : o[1] < r})
        IN  \A lines \in {LinesOf(table_out)}, td_lines \in {TdLines}, origins \in {OriginSeq} :
            /\ Len(lines) = 2 + 2 * table_block.row_size + Cardinality(Origins)
            /\ lines[1] = <<"<", "t", "a", "b", "l", "e", ">">>
            /\ lines[Len(lines)] = <<"<", "/", "t", "a", "b", "l", "e", ">">>
            /\ \A r \in 0..(table_block.row_size - 1) :
                    /\ lines[LineOfTr(r)] = <<" ", " ", "<", "t", "r", ">">>
                    /\ lines[LineOfTr(r) + OriginsOfRow(r) + 1] = <<" ", " ", "<", "/", "t", "r", ">">>
                    /\ \A k \in 1..OriginsOfRow(r) :
                            StartsWith(lines[LineOfTr(r) + k], <<" ", " ", " ", " ", "<", "t", "d">>)
            /\ Len(td_lines) = Len(origins)
            /\ \A k \in 1..Len(origins) :
                    LET data == grid_data[origins[k]]
                        rowspan == <<" ", "r", "o", "w", "s", "p", "a", "n", "=", "\"">> \o IntStr(data[2]) \o <<"\"">>
                        colspan == <<" ", "c", "o", "l", "s", "p", "a", "n", "=", "\"">> \o IntStr(data[3]) \o <<"\"">>
                    IN  /\ Contains(td_lines[k], <<"r", "o", "w", "s", "p", "a", "n">>) <=> data[2] > 1
                        /\ Contains(td_lines[k], <<"c", "o", "l", "s", "p", "a", "n">>) <=> data[3] > 1
                        /\ td_lines[k] = <<" ", " ", " ", " ", "<", "t", "d">>
                                            \o (IF data[2] > 1 THEN rowspan ELSE <<>>)
                                            \o (IF data[3] > 1 THEN colspan ELSE <<>>)
                                            \o <<">">> \o data[1] \o <<"<", "/", "t", "d", ">">>

\* C26's case: a rendered HTML table with an origin that spans two rows
\* and one column, and a row without any origin of its own cells but one
C26_Witness ==
    /\ TableRendered("html")
    /\ \E o \in Origins : grid_data[o][2] > 1 /\ grid_data[o][3] = 1
    /\ \E o \in Origins : grid_data[o][2] = 1 /\ grid_data[o][3] = 1
    /\ Cardinality(Origins) < table_block.row_size * table_block.column_size

(***************************************************************************)
(* Properties of the parser (Spec).                                        *)
(***************************************************************************)
\* _preprocess has run
Preprocessed == pc \in {"ready", "done"}

\* parse() has run
Parsed == pc = "done"

\* the records of the input that decode, in input order
DecodedRaw == Decoded(raw_data_list)

PageDecoded == \E i \in 1..Len(DecodedRaw) : DecodedRaw[i].block_type = BT_PAGE

SomeRecordFails == \E i \in 1..Len(raw_data_list) : ~raw_data_list[i].decodes

\* parse() on the document raw, with the parser's collaborators and modes
ParseOf(raw) ==
    ParseResult(ParserState(sdk, table_mode, assets_dir, BuildBlocksMap(raw)),
                SelectRoot(raw, BuildBlocksMap(raw), MapOrder(raw)))

\* C2 as claimed: when no decoded block is a PAGE, the root is the first
\* record, in input order, that decoded, also when earlier records failed.
C2_RootFallback ==
    (Preprocessed /\ ~PageDecoded /\ DecodedRaw # <<>>) => root_block = DecodedRaw[1].block_id

\* C3 as claimed: a record that does not decode is skipped, every record
\* that decodes is in the id map, and parse() still returns output, without
\* raising, when some records decoded.
C3_DecodeRecovery ==
    /\ (Preprocessed /\ SomeRecordFails) => DOMAIN blocks_map = BlockIds(DecodedRaw)
    /\ (Parsed /\ SomeRecordFails /\ DecodedRaw # <<>>) =>
            (~parse_out.raised /\ parse_out.text # <<>>)

\* the document with every id the id map does not hold removed from every
\* children list, the order of the others kept
WithoutDangling(raw) ==
    [i \in 1..Len(raw) |->
        [raw[i] EXCEPT !.children = SelectSeq(@, LAMBDA c : c \in BlockIds(Decoded(raw)))]]

\* the blocks whose children list names an id the id map does not hold
DanglingParents ==
    {id \in DOMAIN blocks_map :
        \E k \in 1..Len(blocks_map[id].children) : blocks_map[id].children[k] \notin DOMAIN blocks_map}

FetchMethod(block_type) ==
    CASE block_type = BT_IMAGE -> "get_image"
      [] block_type = BT_BOARD -> "get_whiteboard"
      [] block_type = BT_SHEET -> "get_sheet"
      [] block_type = BT_BITABLE -> "get_bitable"
      [] OTHER -> "none"

\* the document with every block whose fetch does not succeed emptied
FailingEmptied(raw) ==
    [i \in 1..Len(raw) |->
        IF FetchMethod(raw[i].block_type) \in SdkMethods /\ sdk[FetchMethod(raw[i].block_type)] # "ok"
        THEN [raw[i] EXCEPT !.payload = NoPayload]
        ELSE raw[i]]

\* C5 as claimed: when an asset fetch or an embedded-table fetch fails, by
\* returning none or by raising, parse() still returns, and returns what it
\* returns for the document with the failing blocks empty.
C5_FetchFailureContained ==
    (Parsed /\ sdk["get_user_name"] = "ok") =>
        /\ ~parse_out.raised
        /\ parse_out.text = ParseOf(FailingEmptied(raw_data_list)).text

\* the document with every mention_user element written out as the text run
\* "@" + the name the lookup returns, or "@" + the user id when it fails
MentionsWritten(raw) ==
    LET Written(el) ==
            IF el.kind = "mention_user"
            THEN TextRun(<<"@">> \o (IF sdk["get_user_name"] = "ok"
                                     THEN UserDisplayName(el.content) ELSE el.content))
            ELSE el
    IN  [i \in 1..Len(raw) |->
            IF raw[i].payload.present
            THEN [raw[i] EXCEPT !.payload.elements = [k \in 1..Len(@) |-> Written(@[k])]]
            ELSE raw[i]]

HasMention ==
    \E i \in 1..Len(raw_data_list) :
        /\ raw_data_list[i].payload.present
        /\ \E k \in 1..Len(raw_data_list[i].payload.elements) :
                raw_data_list[i].payload.elements[k].kind = "mention_user"

\* C6 as claimed: a mention_user element renders as "@" + the raw user id
\* when the lookup fails (unsuccessful response or raised error), as "@" +
\* the returned name when it succeeds, and parse() never raises for it.
C6_UnresolvableMention ==
    (Parsed /\ HasMention /\ \A m \in SdkMethods \ {"get_user_name"} : sdk[m] = "ok") =>
        /\ ~parse_out.raised
        /\ parse_out.text = ParseOf(MentionsWritten(raw_data_list)).text

\* C7: when the input collection is empty, or no root is resolved, parse()
\* returns the empty string, does not raise and calls no collaborator; an
\* empty input resolves no root and leaves the id map empty.
C7_NoContent ==
    /\ (Preprocessed /\ raw_data_list = <<>>) => (root_block = NoBlock /\ blocks_map = <<>>)
    /\ (Parsed /\ (raw_data_list = <<>> \/ root_block = NoBlock)) =>
            parse_out = [text |-> <<>>, raised |-> FALSE, calls |-> <<>>]

\* C7's case: parse() has run on a non-empty input that resolved no root
C7_Witness == Parsed /\ root_block = NoBlock /\ raw_data_list # <<>>

\* the input is a quote of this type, own text quote_text, whose sole child
\* is the bullet item "x"
IsQuoteDocument(quote_type, quote_text) ==
    \E with_page \in BOOLEAN : raw_data_list = QuoteDocument(quote_type, quote_text, with_page)

\* the string parse() returns when the document's body renders to body
WithTitleLine(body) ==
    <<"#", " ">> \o (IF raw_data_list[1].block_type = BT_PAGE THEN <<"T">> ELSE <<>>)
        \o <<NL>> \o body

\* C9 as claimed: a quote block (a quote or a quote container) whose sole
\* child is a bullet item "x" renders as the single line "> - x".
C9_QuoteWithList ==
    \A quote_type \in {BT_QUOTE, BT_QUOTE_CONTAINER} :
        (Parsed /\ IsQuoteDocument(quote_type, <<>>)) =>
            parse_out.text = WithTitleLine(<<">", " ", "-", " ", "x">>)

\* C9 as amended: a quote container whose sole child is a bullet item "x"
\* renders as the single line "> - x"; a quote block with own text t renders
\* the line "> " + t first and the line "> - x" after it.
C9_QuoteContainerWithList ==
    /\ (Parsed /\ IsQuoteDocument(BT_QUOTE_CONTAINER, <<>>)) =>
            parse_out.text = WithTitleLine(<<">", " ", "-", " ", "x">>)
    /\ \A quote_text \in {<<>>, <<"q">>} :
            (Parsed /\ IsQuoteDocument(BT_QUOTE, quote_text)) =>
                parse_out.text = WithTitleLine(<<">", " ">> \o quote_text
                                                \o <<NL, ">", " ", "-", " ", "x">>)

\* C9's case: parse() has rendered a quote container holding the bullet "x"
C9_Witness == Parsed /\ IsQuoteDocument(BT_QUOTE_CONTAINER, <<>>) /\ ~parse_out.raised

\* the style wrappers in the order the spec fixes: attribute, opening, closing
StyleOrder(url) ==
    <<<<"bold", <<"*", "*">>, <<"*", "*">>>>,
      <<"italic", <<"*">>, <<"*">>>>,
      <<"strikethrough", <<"~", "~">>, <<"~", "~">>>>,
      <<"inline_code", <<Backtick>>, <<Backtick>>>>,
      <<"underline", <<"<", "u", ">">>, <<"<", "/", "u", ">">>>>,
      <<"link", <<"[">>, <<"]", "(">> \o Unquote(url) \o <<")">>>>>>

RECURSIVE WrappedInOrder(_, _, _, _)
\* text inside the first k wrappers of StyleOrder that are in set, the first innermost
WrappedInOrder(text, set, url, k) ==
    IF k = 0 THEN text
    ELSE IF StyleOrder(url)[k][1] \in set
         THEN StyleOrder(url)[k][2] \o WrappedInOrder(text, set, url, k - 1) \o StyleOrder(url)[k][3]
         ELSE WrappedInOrder(text, set, url, k - 1)

\* the document is the one of a run "text" with the attributes of set_order
IsStyledDocument(set_order, url) ==
    raw_data_list = StyledDocument(StyledTextRun(<<"t", "e", "x", "t">>, set_order, url))

\* parse() has run on a document whose second block holds a styled run
StyledRunParsed ==
    /\ Parsed
    /\ Len(raw_data_list) = 2
    /\ raw_data_list[2].payload.elements # <<>>
    /\ raw_data_list[2].payload.elements[1].style.present

\* the attributes set on a text_element_style
FlagsSet(style) ==
    {flag \in StyleFlags :
        CASE flag = "bold" -> style.bold
          [] flag = "italic" -> style.italic
          [] flag = "strikethrough" -> style.strikethrough
          [] flag = "inline_code" -> style.inline_code
          [] flag = "underline" -> style.underline
          [] OTHER -> style.has_link}

\* C11: a text run renders as its text inside the wrappers of the attributes
\* set on it, applied in the order bold, italic, strikethrough, inline code,
\* underline, link, whatever the order the attributes were set in; with bold
\* and italic alone it renders as ***text***
C11_StyleOrdering ==
    StyledRunParsed =>
        LET run == raw_data_list[2].payload.elements[1]
        IN  /\ ~parse_out.raised
            /\ parse_out.text =
                    WithTitleLine(WrappedInOrder(run.content, FlagsSet(run.style), run.style.url,
                                                 Cardinality(StyleFlags)))
            /\ FlagsSet(run.style) = {"bold", "italic"} =>
                    parse_out.text = WithTitleLine(<<"*", "*", "*">> \o run.content \o <<"*", "*", "*">>)

\* C11's case: parse() has rendered a run with every attribute set, the link
\* set first and bold last
C11_Witness ==
    /\ Parsed
    /\ IsStyledDocument(<<"link", "underline", "inline_code", "strikethrough", "italic", "bold">>,
                        <<"a", "%", "2", "0", "b">>)
    /\ ~parse_out.raised

\* the parser of the state, as the render helpers read it
ThisParser == ParserState(sdk, table_mode, assets_dir, blocks_map)

\* the document is a page holding one heading of this level
IsHeadingDocument(level) == \E payload \in HeadingPayloads : raw_data_list = HeadingDocument(level, payload)

\* C12: a heading block of level L in 1..9 renders its own text as L times
\* "#", one space, then the inline text of its payload; level 2 with the text
\* "Hello" gives "## Hello"
C12_HeadingRendering ==
    \A level \in 1..9 :
        (Preprocessed /\ IsHeadingDocument(level)) =>
            LET block == blocks_map[2]
                own == RenderBlockSelf(ThisParser, block, <<>>)
                inline == RenderTextPayload(ThisParser, block.payload, <<>>)
            IN  /\ ~own.raised
                /\ own.text = Repeat(<<"#">>, level) \o <<" ">> \o inline.text
                /\ (level = 2 /\ raw_data_list[2].payload = TextPayload(<<TextRun(<<"H", "e", "l", "l", "o">>)>>)) =>
                        /\ own.text = <<"#", "#", " ", "H", "e", "l", "l", "o">>
                        /\ Parsed => parse_out.text = WithTitleLine(<<"#", "#", " ", "H", "e", "l", "l", "o">>)

\* C12's case: parse() has rendered a level 9 heading "Hello"
C12_Witness ==
    /\ Parsed
    /\ raw_data_list = HeadingDocument(9, TextPayload(<<TextRun(<<"H", "e", "l", "l", "o">>)>>))
    /\ parse_out.text = WithTitleLine(Repeat(<<"#">>, 9) \o <<" ", "H", "e", "l", "l", "o">>)

\* the document is a page holding one embedded block with this token
IsEmbeddedDocument(block_type, token) == raw_data_list = EmbeddedDocument(block_type, token)

\* C13 as claimed: a sheet, bitable or reference block calls the collaborator
\* only when its token splits on "_" into exactly two parts; for a token
\* without "_" or with more than one "_" the block renders as the empty
\* string and no collaborator call is made.
C13_CompositeToken ==
    \A block_type \in EmbeddedTypes, token \in EmbeddedTokens :
        (Parsed /\ IsEmbeddedDocument(block_type, token)) =>
            /\ parse_out.calls # <<>> => Len(Split(token, "_")) = 2
            /\ Len(Split(token, "_")) # 2 =>
                    /\ parse_out.text = WithTitleLine(<<>>)
                    /\ parse_out.calls = <<>>

\* the children of a block that a render visits: its sub_blocks; for a table
\* the cell blocks the grid scan takes, one per origin, none without property
VisitedChildren(block) ==
    IF block.block_type # BT_TABLE THEN block.sub_blocks
    ELSE IF ~block.payload.present \/ ~block.payload.has_property THEN <<>>
    ELSE SubSeq(block.sub_blocks, 1,
                ScanFrom([has_property |-> TRUE, row_size |-> block.payload.row_size,
                          column_size |-> block.payload.column_size,
                          merge_info |-> block.payload.merge_info,
                          cells |-> [k \in 1..Len(block.sub_blocks) |-> <<>>],
                          table_mode |-> table_mode],
                         [visited |-> NewVisited(block.payload.row_size, block.payload.column_size),
                          grid_data |-> NewGrid(block.payload.row_size, block.payload.column_size),
                          cursor |-> 0], 0).cursor)

RECURSIVE PreOrder(_, _)
\* the blocks visited under id in depth-first pre-order: the block, then the
\* blocks under each of its children in list order; depth bounds the nesting
PreOrder(id, depth) ==
    IF depth = 0 THEN <<>>
    ELSE <<id>> \o Cat([k \in 1..Len(VisitedChildren(blocks_map[id])) |->
                            PreOrder(VisitedChildren(blocks_map[id])[k], depth - 1)])

\* the name lookups the elements of a payload ask for, in element order
MentionCalls(payload) ==
    LET mentions == SelectSeq(payload.elements, LAMBDA el : el.kind = "mention_user")
    IN  [k \in 1..Len(mentions) |-> <<"get_user_name", mentions[k].content>>]

\* the collaborator calls the own content of a block asks for
OwnCalls(block) ==
    LET bt == block.block_type
        parts == Split(block.payload.token, "_")
    IN  CASE bt \in {BT_IMAGE, BT_BOARD} ->
                IF block.payload.token = <<>> THEN <<>>
                ELSE <<<<IF bt = BT_IMAGE THEN "get_image" ELSE "get_whiteboard", block.payload.token>>>>
          [] bt \in {BT_SHEET, BT_BITABLE} ->
                IF ~block.payload.present \/ Len(parts) < 2 THEN <<>>
                ELSE <<<<IF bt = BT_SHEET THEN "get_sheet" ELSE "get_bitable", parts[1], parts[2]>>>>
          [] bt = BT_REFERENCE_BLOCK ->
                IF Len(parts) = 2 /\ Len(parts[2]) >= 2 /\ SubSeq(parts[2], 1, 2) = <<"t", "b">>
                THEN <<<<"get_bitable", parts[1], parts[2]>>>>
                ELSE <<>>
          [] bt \in {BT_PAGE, BT_TABLE, BT_TABLE_CELL, BT_QUOTE_CONTAINER, BT_DIVIDER} -> <<>>
          [] OTHER -> MentionCalls(block.payload)

\* the calls the own contents of the blocks ids ask for, in the order of ids
CallsOf(ids) == Cat([k \in 1..Len(ids) |-> OwnCalls(blocks_map[ids[k]])])

\* the calls of one parse() that nothing interrupts: those of the title, then
\* those of the blocks under the root in depth-first pre-order
CallsInPreOrder ==
    (IF blocks_map[root_block].block_type = BT_PAGE
     THEN MentionCalls(blocks_map[root_block].payload)
     ELSE <<>>)
    \o CallsOf(PreOrder(root_block, Cardinality(DOMAIN blocks_map)))

\* the call raises an exception into the parser
CallRaises(call) == call[1] # "get_bitable" /\ sdk[call[1]] = "raise"

\* calls up to its first call that raises, that call included
UntilRaise(calls) ==
    IF \E k \in 1..Len(calls) : CallRaises(calls[k])
    THEN SubSeq(calls, 1, CHOOSE k \in 1..Len(calls) :
                            /\ CallRaises(calls[k])
                            /\ \A j \in 1..(k - 1) : ~CallRaises(calls[j]))
    ELSE calls

\* the texts of the root's children, in list order, without the empty ones
ChildTexts ==
    SelectSeq([k \in 1..Len(blocks_map[root_block].sub_blocks) |->
                    RecursiveRender(ThisParser, blocks_map[root_block].sub_blocks[k],
                                    Cardinality(DOMAIN blocks_map), <<>>).text],
              LAMBDA text : text # <<>>)

RECURSIVE NestsDeeper(_, _)
\* a chain of more than depth blocks, each among the visited children of the
\* one before, starts at id
NestsDeeper(id, depth) ==
    IF depth = 0 THEN TRUE
    ELSE \E k \in 1..Len(VisitedChildren(blocks_map[id])) :
            NestsDeeper(VisitedChildren(blocks_map[id])[k], depth - 1)

\* the render of the root comes back to a block under itself: some chain of
\* children is longer than the number of blocks
EndlessNesting ==
    root_block # NoBlock /\ NestsDeeper(root_block, Cardinality(DOMAIN blocks_map))

\* C17: the collaborator calls of one parse() are those of the blocks in
\* depth-first pre-order (a block's own content before its children, children
\* in list order, table cells in cell-list order), made one after the other
\* up to the first that raises; the texts of the children of the page appear
\* in the output in the order of the children list (for a document in which
\* no block is listed under itself)
C17_DepthFirstOrder ==
    (Parsed /\ root_block # NoBlock /\ ~EndlessNesting) =>
        /\ parse_out.calls = UntilRaise(CallsInPreOrder)
        /\ parse_out.raised <=> \E k \in 1..Len(parse_out.calls) : CallRaises(parse_out.calls[k])
        /\ (~parse_out.raised /\ blocks_map[root_block].block_type = BT_PAGE) =>
                parse_out.text =
                    <<"#", " ">>
                        \o RenderTextPayload(ThisParser, blocks_map[root_block].payload, <<>>).text
                        \o <<NL>> \o Join(<<NL, NL>>, ChildTexts)

\* C17's case: parse() has rendered the nested document with the table
\* first and the bullet item last, every collaborator answering
C17_Witness ==
    /\ Parsed
    /\ raw_data_list = NestedDocument(<<4, 9, 2>>, 1)
    /\ ~parse_out.raised
    /\ parse_out.calls =
            <<<<"get_user_name", <<"u", "1">>>>, <<"get_user_name", <<"u", "7">>>>,
              <<"get_whiteboard", <<"w", "8">>>>, <<"get_sheet", <<"s">>, <<"9">>>>,
              <<"get_user_name", <<"u", "2">>>>, <<"get_image", <<"i", "3">>>>>>

\* C18: parse() leaves the id map (each block with its payload and its
\* resolved children) and the selected root as _preprocess built them, and
\* every parse() on the same parser with the same collaborator answers
\* returns the same string
C18_ReadOnly ==
    Preprocessed =>
        /\ blocks_map = BuildBlocksMap(raw_data_list)
        /\ root_block = SelectRoot(raw_data_list, BuildBlocksMap(raw_data_list), MapOrder(raw_data_list))
        /\ \A i, j \in 1..Len(parse_history) :
                /\ parse_history[i].raised = parse_history[j].raised
                /\ parse_history[i].text = parse_history[j].text

\* C18's case: parse() has been called twice on a parser whose document has
\* a table, nested blocks and collaborator calls, and returned a text
C18_Witness ==
    /\ Len(parse_history) = 2
    /\ \E order \in ChildOrders : raw_data_list = NestedDocument(order, 1)
    /\ ~parse_history[2].raised
    /\ Len(parse_history[2].calls) = 6

\* the text a child of this kind renders to
KindText(kind) ==
    CASE kind = "one" -> <<"a">>
      [] kind = "two" -> <<"b", NL, "c">>
      [] OTHER -> <<>>

\* the kinds of the children of the document's container block
KindsOfDocument ==
    [k \in 1..(Len(raw_data_list) - 2) |->
        LET payload == raw_data_list[k + 2].payload
        IN  IF \E kind \in ChildKinds : ChildPayload(kind) = payload
            THEN CHOOSE kind \in ChildKinds : ChildPayload(kind) = payload
            ELSE "none"]

\* the document is a page holding one container block and its text children
IsContainerDocument ==
    /\ Len(raw_data_list) >= 2
    /\ raw_data_list[2].block_type \in ContainerTypes
    /\ \A k \in 1..(Len(raw_data_list) - 2) : KindsOfDocument[k] \in ChildKinds
    /\ raw_data_list =
            ContainerDocument(raw_data_list[2].block_type,
                              IF raw_data_list[2].payload.elements = <<>> THEN <<>>
                              ELSE raw_data_list[2].payload.elements[1].content,
                              KindsOfDocument)

\* the renderings of the container's children that are not empty, in
\* children-list order
KeptTexts ==
    LET texts == [k \in 1..Len(KindsOfDocument) |-> KindText(KindsOfDocument[k])]
    IN  SelectSeq(texts, LAMBDA text : text # <<>>)

RECURSIVE BlankLineJoined(_)
\* the texts one after the other, one blank line between two of them
BlankLineJoined(texts) ==
    IF texts = <<>> THEN <<>>
    ELSE IF Len(texts) = 1 THEN texts[1]
    ELSE texts[1] \o <<NL, NL>> \o BlankLineJoined(Tail(texts))

\* the container's own text
OwnText == RenderBlockSelf(ThisParser, blocks_map[2], <<>>).text

\* C21: when a block has non-empty joined children text, the lines of its
\* rendering are the lines of its own text, then every line of the joined
\* children (the blank separator lines too) prefixed with "> " for a quote,
\* quote container or callout and with 4 spaces for a bullet, ordered or todo
\* item; for every other block type they are the lines of its own text, one
\* blank line, then the lines of the joined children unchanged.  A block
\* without own text starts with the first line of its children.
C21_ContainerCombinators ==
    (Parsed /\ IsContainerDocument /\ KeptTexts # <<>>) =>
        LET bt == raw_data_list[2].block_type
            own_lines == IF OwnText = <<>> THEN <<>> ELSE Split(OwnText, NL)
            kid_lines == Split(BlankLineJoined(KeptTexts), NL)
            Prefixed(prefix) == [i \in 1..Len(kid_lines) |-> prefix \o kid_lines[i]]
            lines == IF bt \in {BT_QUOTE, BT_QUOTE_CONTAINER, BT_CALLOUT}
                     THEN own_lines \o Prefixed(<<">", " ">>)
                     ELSE IF bt \in {BT_BULLET, BT_ORDERED, BT_TODO}
                     THEN own_lines \o Prefixed(<<" ", " ", " ", " ">>)
                     ELSE own_lines \o (IF own_lines = <<>> THEN <<>> ELSE <<<<>>>>) \o kid_lines
        IN  /\ ~parse_out.raised
            /\ Split(parse_out.text, NL) = <<<<"#", " ", "T">>>> \o lines

\* C21's case: parse() has rendered a bullet item "t" holding the text "a"
\* and the two-line text "b", "c": five lines, the blank one indented too
C21_Witness ==
    /\ Parsed
    /\ raw_data_list = ContainerDocument(BT_BULLET, <<"t">>, <<"one", "two">>)
    /\ parse_out.text = WithTitleLine(<<"-", " ", "t", NL, " ", " ", " ", " ", "a", NL,
                                        " ", " ", " ", " ", NL,
                                        " ", " ", " ", " ", "b", NL, " ", " ", " ", " ", "c">>)

\* C22: in the render step of a block that is no table, the children whose
\* rendering is the empty string are skipped and the other renderings are
\* joined with exactly one blank line, in children-list order: the loop keeps
\* the non-empty renderings in order, and a block without prefix rule renders
\* as its own text, one blank line, and the kept renderings one blank line
\* apart (trimmed at both ends, as every rendering is).
C22_ChildComposition ==
    (Preprocessed /\ IsContainerDocument) =>
        LET each == RenderEach(ThisParser, blocks_map[2].sub_blocks, Len(raw_data_list), <<>>, <<>>, TRUE)
            bt == raw_data_list[2].block_type
        IN  /\ ~each.raised
            /\ each.texts = KeptTexts
            /\ (Parsed /\ bt \in {BT_TEXT, BT_HEADING1, BT_TABLE_CELL}) =>
                    parse_out.text =
                        WithTitleLine(Strip(BlankLineJoined((IF OwnText = <<>> THEN <<>> ELSE <<OwnText>>)
                                                            \o KeptTexts)))

\* C22's case: parse() has rendered a text block "t" whose children render
\* to "a", to the empty string and to the lines "b", "c"
C22_Witness ==
    /\ Parsed
    /\ raw_data_list = ContainerDocument(BT_TEXT, <<"t">>, <<"one", "empty", "two">>)
    /\ parse_out.text = WithTitleLine(<<"t", NL, NL, "a", NL, NL, "b", NL, "c">>)

\* C29 as claimed: parse() returns for every block collection, the
\* recursion of the render never going deeper than the number of blocks,
\* also when a children list names the block itself or one of its
\* ancestors: with every collaborator answering, no exception (no
\* RecursionError) leaves parse().
C29_RenderTermination ==
    (Parsed /\ sdk = AllOk) => ~parse_out.raised

(***************************************************************************)
(* Properties of the converter (SpecConvert).                              *)
(***************************************************************************)
RECURSIVE InlineSource(_)
\* the Markdown text of inline nodes
InlineSource(children) ==
    IF children = <<>> THEN <<>>
    ELSE
        LET child == Head(children)
        IN  (CASE child.type = "text" -> child.raw
               [] child.type = "codespan" -> <<Backtick>> \o child.raw \o <<Backtick>>
               [] child.type = "strong" -> <<"*", "*">> \o InlineSource(child.children) \o <<"*", "*">>
               [] child.type = "emphasis" -> <<"*">> \o InlineSource(child.children) \o <<"*">>
               [] child.type = "link" ->
                    <<"[">> \o InlineSource(child.children) \o <<"]", "(">> \o child.url \o <<")">>
               [] child.type = "softbreak" -> <<NL>>
               [] OTHER -> <<>>)
            \o InlineSource(Tail(children))

\* the Markdown text of a block-level node
BlockSource(token) ==
    CASE token.type = "heading" -> Repeat(<<"#">>, token.level) \o <<" ">> \o InlineSource(token.children)
      [] token.type = "paragraph" -> InlineSource(token.children)
      [] token.type = "block_code" ->
            <<Backtick, Backtick, Backtick>> \o token.info \o <<NL>> \o token.raw
                \o <<Backtick, Backtick, Backtick>>
      [] token.type = "block_quote" ->
            Join(<<NL, ">", NL>>,
                 [k \in 1..Len(token.children) |-> <<">", " ">> \o InlineSource(token.children[k].children)])
      [] token.type = "thematic_break" -> <<"-", "-", "-">>
      [] token.type = "block_html" -> token.raw
      [] token.type = "list" ->
            Join(<<NL>>,
                 [k \in 1..Len(token.children) |->
                    (IF token.ordered THEN IntStr(k) \o <<".", " ">> ELSE <<"-", " ">>)
                        \o InlineSource(token.children[k].children[1].children)])
      [] OTHER -> <<>>

\* the Markdown text M whose syntax nodes are toks
MarkdownOf(toks) == Join(<<NL>>, [k \in 1..Len(toks) |-> BlockSource(toks[k])])

\* " ".join(s.split()): whitespace normalization
Normalize(s) ==
    LET spaced == [i \in 1..Len(s) |-> IF s[i] \in Whitespace THEN " " ELSE s[i]]
    IN  Join(<<" ">>, SelectSeq(Split(spaced, " "), LAMBDA word : word # <<>>))

\* the document that holds the converted blocks: an untitled page whose
\* children they are, in order
AsDocument(converted) ==
    <<RawBlock(1, BT_PAGE, [k \in 1..Len(converted) |-> k + 1], TextPayload(<<>>), TRUE)>>
        \o [k \in 1..Len(converted) |->
                RawBlock(k + 1, converted[k].block_type, <<>>, converted[k].payload, TRUE)]

\* the Markdown the renderer gives for the converted blocks, after the title line
RenderedBody(converted) ==
    LET out == ParseOf(AsDocument(converted)).text
    IN  SubSeq(out, 4, Len(out))

RoundTripTokens ==
    \A k \in 1..Len(tokens) :
        tokens[k].type \in {"heading", "paragraph", "block_code", "block_quote",
                            "thematic_break", "blank_line"}

\* C8 as claimed: for a Markdown text of headings, paragraphs, fenced code
\* blocks, block quotes and dividers only, rendering the blocks convert()
\* returns reproduces the text up to whitespace normalization.
C8_WeakRoundTrip ==
    (convert_pc = "done" /\ RoundTripTokens) =>
        Normalize(RenderedBody(blocks)) = Normalize(MarkdownOf(tokens))

\* the node types _convert_token has a branch for
SupportedTypes == {"heading", "paragraph", "list", "block_code", "block_quote", "thematic_break"}

\* the first n nodes of the text that are of a supported type, in order
SupportedTokens(n) == SelectSeq(SubSeq(tokens, 1, n), LAMBDA token : token.type \in SupportedTypes)

\* C15: convert() runs to its return on a text with nodes of unsupported
\* types; the list it builds holds the blocks of the supported nodes seen so
\* far, in the order of the nodes, and nothing for the other nodes
C15_UnsupportedSkipped ==
    /\ convert_pc \in {"loop", "done"} =>
            blocks = Cat([k \in 1..Len(SupportedTokens(token_pos)) |->
                            ConvertToken(SupportedTokens(token_pos)[k])])
    /\ convert_pc = "done" => token_pos = Len(tokens)
    /\ (convert_pc = "loop" /\ token_pos < Len(tokens)) => ENABLED ConvertStep

\* C15's case: convert() has returned for a text whose first node is of an
\* unsupported type, with a blank line and then a supported node after it
C15_Witness ==
    /\ convert_pc = "done"
    /\ Len(tokens) = 3
    /\ tokens[1].type = "block_html"
    /\ tokens[2].type = "blank_line"
    /\ tokens[3].type \in SupportedTypes
    /\ Len(blocks) >= 1

\* the fenced code nodes of the text, in order
CodeTokens == SelectSeq(tokens, LAMBDA token : token.type = "block_code")

\* the code blocks of the list convert() returns, in order
CodeBlocks == SelectSeq(blocks, LAMBDA block : block.block_type = BLOCK_TYPE_CODE)

\* C16: each fenced code node gives exactly one code block; its elements are
\* one text run holding the node's raw text unchanged, its language is the
\* tag of the lowercased info string in the language table, 1 when the info
\* string is absent or not in the table; a python fence with the body
\* print(1) gives the content "print(1)\n" and the tag of python
C16_CodeFence ==
    convert_pc = "done" =>
        /\ Len(CodeBlocks) = Len(CodeTokens)
        /\ \A k \in 1..Len(CodeTokens) :
                LET token == CodeTokens[k]
                    payload == CodeBlocks[k].payload
                    lowered == ToLower(token.info)
                IN  /\ Len(payload.elements) = 1
                    /\ payload.elements[1] = TextRun(token.raw)
                    /\ payload.language =
                            (IF \E item \in LANGUAGE_MAP : item[1] = lowered
                             THEN (CHOOSE item \in LANGUAGE_MAP : item[1] = lowered)[2]
                             ELSE 1)
                    /\ token.info = <<>> => payload.language = 1
                    /\ token.info = <<"m", "e", "r", "m", "a", "i", "d">> => payload.language = 1
                    /\ token.info = <<"G", "o">> => payload.language = 13
                    /\ token = PythonFence =>
                            /\ payload.elements[1].content =
                                    <<"p", "r", "i", "n", "t", "(", "1", ")", NL>>
                            /\ payload.language = 49

\* C16's case: convert() has returned for the python fence followed by a
\* fence without info string whose body is indented
C16_Witness ==
    /\ convert_pc = "done"
    /\ Len(CodeTokens) = 2
    /\ CodeTokens[1] = PythonFence
    /\ CodeTokens[2].info = <<>>
    /\ Head(CodeTokens[2].raw) = " "
    /\ Len(CodeBlocks) = 2

\* the loop has taken the first node of the text, a list
ListConverted == convert_pc \in {"loop", "done"} /\ token_pos >= 1 /\ tokens[1].type = "list"

\* the inline elements of the paragraphs among the children of a list item
ImmediateParagraphElements(item) ==
    LET paragraphs == SelectSeq(item.children, LAMBDA child : child.type = "paragraph")
    IN  Cat([k \in 1..Len(paragraphs) |-> ExtractTextElements(paragraphs[k].children)])

\* C27: a list node of n items gives exactly n blocks, in item order, each
\* of type 13 when the list is ordered and 12 otherwise; the elements of the
\* k-th block are the inline elements of the paragraphs that are immediate
\* children of the k-th item; a nested list, a code block or any other
\* child of an item gives no block and no element
C27_ListConversion ==
    ListConverted =>
        LET list == tokens[1]
            n == Len(list.children)
        IN  /\ Len(blocks) >= n
            /\ token_pos = 1 => Len(blocks) = n
            /\ \A k \in 1..n :
                    /\ blocks[k].block_type = (IF list.ordered THEN 13 ELSE 12)
                    /\ blocks[k].payload.elements = ImmediateParagraphElements(list.children[k])
            /\ (convert_pc = "done" /\ Len(tokens) = 1) => Len(blocks) = n

\* C27's case: convert() has returned for an ordered list of two items, the
\* first a paragraph with a nested list after it, the second two paragraphs
C27_Witness ==
    /\ convert_pc = "done"
    /\ Len(tokens) = 1
    /\ tokens[1].type = "list"
    /\ tokens[1].ordered
    /\ Len(tokens[1].children) = 2
    /\ \E child \in {tokens[1].children[1].children[i] : i \in 1..Len(tokens[1].children[1].children)} :
            child.type = "list"
    /\ Len(tokens[1].children[2].children) = 2
    /\ Len(blocks) = 2
    /\ Len(blocks[1].payload.elements) = 2
    /\ Len(blocks[2].payload.elements) = 2

RECURSIVE LeafText(_)
\* the text of the text leaves under a node, in order
LeafText(node) ==
    IF node.type = "text" THEN node.raw
    ELSE Cat([k \in 1..Len(node.children) |-> LeafText(node.children[k])])

\* the style flag of a styled span
SpanFlag(type) ==
    CASE type = "strong" -> "bold"
      [] type = "emphasis" -> "italic"
      [] OTHER -> "strikethrough"

\* the text is one paragraph that holds one strong, emphasis or
\* strikethrough span and nothing else
OneSpanParagraph ==
    /\ Len(tokens) = 1
    /\ tokens[1].type = "paragraph"
    /\ Len(tokens[1].children) = 1
    /\ tokens[1].children[1].type \in {"strong", "emphasis", "strikethrough"}

\* C28 as claimed: for a strong, emphasis or strikethrough span, the runs
\* emitted carry exactly the style flag of the span, and their contents
\* concatenated are the text of all the text leaves of the span, those
\* inside a nested styled span included.
C28_InlineFlattening ==
    (convert_pc = "done" /\ OneSpanParagraph) =>
        LET span == tokens[1].children[1]
            runs == blocks[1].payload.elements
        IN  /\ Len(blocks) = 1
            /\ \A k \in 1..Len(runs) :
                    runs[k] = StyledRun(runs[k].content, SpanFlag(span.type))
            /\ Cat([k \in 1..Len(runs) |-> runs[k].content]) = LeafText(span)

(***************************************************************************)
(* Properties of the writer (SpecWrite).                                   *)
(***************************************************************************)
\* write_content has returned after writing blocks
Written == write_pc = "done" /\ write_args.entry = "write_content" /\ new_blocks # <<>>

\* the position of the first request of this name in the log, 0 when there is none
FirstCall(name) ==
    IF \E k \in 1..Len(write_calls) : write_calls[k][1] = name
    THEN CHOOSE k \in 1..Len(write_calls) :
            /\ write_calls[k][1] = name
            /\ \A j \in 1..(k - 1) : write_calls[j][1] # name
    ELSE 0

\* C19 as claimed: with append=True the converted blocks are added after the
\* document's existing content; with append=False the existing content is
\* cleared before the new blocks are written, the clear coming before any
\* create_blocks request.
C19_AppendFlag ==
    /\ (Written /\ write_args.append) => doc_children = write_args.before \o new_blocks
    /\ (Written /\ ~write_args.append) =>
            /\ doc_children = ClearDocument(write_args.before) \o new_blocks
            /\ FirstCall("clear_document") > 0
            /\ FirstCall("clear_document") < FirstCall("create_blocks")

\* create_blocks has been entered with children to send
Creating == write_pc \in {"create", "done", "raised"} /\ new_blocks # <<>>

\* the create_blocks requests made so far, in order
CreateRequests == SelectSeq(write_calls, LAMBDA call : call[1] = "create_blocks")

\* the k-th run of at most chunk_size children of the input list
ChunkOf(k) ==
    SubSeq(new_blocks, (k - 1) * chunk_size + 1, Min(k * chunk_size, Len(new_blocks)))

\* the parent's children with the first n blocks of the input list placed, in
\* input order and next to each other, at the index asked for (at the end
\* for index -1)
Placed(n) ==
    IF write_args.index < 0
    THEN write_args.before \o SubSeq(new_blocks, 1, n)
    ELSE SubSeq(write_args.before, 1, write_args.index)
            \o SubSeq(new_blocks, 1, n)
            \o SubSeq(write_args.before, write_args.index + 1, Len(write_args.before))

\* the number of requests that send n children
RequestsFor(n) == (n + chunk_size - 1) \div chunk_size

\* C30: create_blocks sends the children in consecutive chunks of at most 50,
\* one request per chunk, in input order; with index >= 0 the k-th request
\* carries index plus the number of children already sent, with index -1 it
\* carries no index (the chunk goes to the end); after a fully successful call
\* the new blocks sit next to each other under the parent in input order; when
\* a request fails the call raises, no later chunk is sent, and the chunks
\* created before stay in the document.
C30_ChunkedCreation ==
    Creating =>
        /\ \A k \in 1..Len(CreateRequests) :
                /\ CreateRequests[k][2] = ChunkOf(k)
                /\ Len(CreateRequests[k][2]) \in 1..chunk_size
                /\ CreateRequests[k][3] =
                        IF write_args.index >= 0
                        THEN write_args.index + (k - 1) * chunk_size
                        ELSE -1
        /\ doc_children = Placed(sent)
        /\ write_pc = "create" => Len(CreateRequests) = RequestsFor(sent)
        /\ write_pc = "done" =>
                /\ sent = Len(new_blocks)
                /\ Len(CreateRequests) = RequestsFor(Len(new_blocks))
                /\ write_out = [value |-> new_blocks]
        /\ write_pc = "raised" =>
                /\ Len(CreateRequests) = answers.create_fails_at
                /\ Len(CreateRequests) = RequestsFor(sent) + 1
                /\ sent = (answers.create_fails_at - 1) * chunk_size
                /\ sent < Len(new_blocks)
                /\ write_out = None

\* C30's case: 51 children were created at index 1 of a parent that held two
\* children, in two requests
C30_Witness ==
    /\ write_pc = "done"
    /\ write_args.entry = "create_blocks"
    /\ write_args.index = 1
    /\ write_args.before = <<-1, -2>>
    /\ Len(new_blocks) = chunk_size + 1
    /\ Len(CreateRequests) = 2
    /\ CreateRequests[2][3] = 1 + chunk_size
    /\ doc_children = <<-1>> \o new_blocks \o <<-2>>

(***************************************************************************)
(* Properties of the authenticator (SpecAuth).                             *)
(***************************************************************************)
\* the cache the last call found held a token with more than the window left
FoundFresh ==
    /\ last_call.cache_before.kind = "valid"
    /\ last_call.cache_before.token # 0
    /\ last_call.cache_before.expires_at - last_call.time > 1800

\* C20: get_token() returns the cached token without contacting the token
\* endpoint exactly when the cache holds a token with more than 1800 seconds
\* of validity left; otherwise (30 minutes or less left, no cache, an
\* unreadable cache) it contacts the endpoint, and then either stores the new
\* token with its new expiry in the cache and returns it, or raises and
\* leaves the cache file as it was
C20_RefreshWindow ==
    last_call # NoCall =>
        /\ ~last_call.contacted <=> FoundFresh
        /\ FoundFresh =>
                /\ ~last_call.raised
                /\ last_call.returned = last_call.cache_before.token
                /\ last_call.cache_after = last_call.cache_before
        /\ (last_call.contacted /\ ~last_call.raised) =>
                /\ last_call.returned > 0
                /\ last_call.returned # last_call.cache_before.token
                /\ last_call.cache_after =
                        CacheHolding(last_call.returned, last_call.time + last_call.expire)
        /\ last_call.raised =>
                /\ last_call.contacted
                /\ last_call.cache_after = last_call.cache_before

\* C20's case: get_token() found the token it had cached itself with exactly
\* 1800 seconds left, fetched a new one and stored it
C20_Witness ==
    /\ last_call # NoCall
    /\ last_call.cache_before.kind = "valid"
    /\ last_call.cache_before.token = 1
    /\ last_call.cache_before.expires_at - last_call.time = 1800
    /\ last_call.contacted
    /\ last_call.returned = 2
    /\ cache_file = CacheHolding(2, last_call.time + last_call.expire)

====
